---- MODULE Spec2Model ----
(***************************************************************************)
(* Model of the Intercom <-> Asana integration server (src/src/index.js). *)
(* Every webhook delivery or canvas request is a request record whose pc  *)
(* advances from one await point of its handler to the next; the remote   *)
(* systems (Intercom tickets and conversations, Asana tasks and stories)  *)
(* are part of the state, and every outbound call may fail.               *)
(***************************************************************************)
EXTENDS Integers, Sequences, FiniteSets, TLC

\* ------------------------------------------------------------------ bounds
MaxReq == 2
MaxNotes == 2
MaxStates == 2
MaxUrls == 2
MaxFields == 2
MaxOptions == 2

NULL == "null"

Tickets == {"T1", "T2"}

\* conversation.ticket.id of the request body / of getConversation
ConvOf(t) == IF t = "T1" THEN "V1" ELSE "V2"
TicketOfConv(c) == IF c = "V1" THEN "T1" ELSE IF c = "V2" THEN "T2" ELSE NULL
Conversations == {ConvOf(t) : t \in Tickets}


Projects == {"P1", "P2"}

\* process.env.ASANA_PROJECT, the default of getAsanaCustomFields
ASANA_PROJECT == "P1"

\* custom_field_settings of a project, in API order and reduced to its
\* critical fields (the empty list stands for a failed fetch or a project with
\* no custom fields): P1 defines both critical fields, P2 lacks
\* 'Intercom Conversation ID'
ProjectSchema(p) ==
  IF p = "P1"
  THEN <<[name |-> "Intercom Conversation ID", gid |-> "g_conv"],
         [name |-> "Ticket Status", gid |-> "g_status"]>>
  ELSE <<[name |-> "Ticket Status", gid |-> "g_status2"]>>

\* the kinds of value a file attribute of a ticket can hold: an http or https
\* URL, a URL of another scheme, a bare id
UrlKinds == {"http", "https", "ftp", "id"}

\* data.enum_options of GET /custom_fields/{gid} at the start: one option
InitialOptions == <<[gid |-> "o1", name |-> "High"]>>

VARIABLES
  tickets,                 \* Intercom: ticket id -> ticket record
  notes,                   \* Intercom: conversation id -> sequence of notes
  asanaTasks,              \* Asana: sequence of tasks, gid = index
  asanaTaskToConversation, \* process memory: set of <<task gid, conversation>>
  ASANA_CUSTOM_FIELDS,     \* process memory: critical field gids
  customFieldsCache,       \* process memory: the schema last mapped, if any
  reqs,                    \* requests received so far, with their progress
  putLog,                  \* Intercom: the writes received for 'Asana Task ID'
  delivered,               \* the notes and stories whose event has been delivered
  ticketStates,            \* Intercom: the ticket state catalog, in API order
  ticketStatesCache,       \* process memory: the catalog as fetched, if loaded
  asanaWebhookSecret,      \* process memory: the X-Hook-Secret last received
  enumOptions              \* Asana: the enum_options of the enum custom field

vars == <<tickets, notes, asanaTasks, asanaTaskToConversation,
          ASANA_CUSTOM_FIELDS, customFieldsCache, reqs, putLog, delivered, ticketStates,
          ticketStatesCache, asanaWebhookSecret, enumOptions>>

\* what the canvas handlers (/initialize, /submit) neither read nor write
webhookState ==
  <<delivered, ticketStates, ticketStatesCache, asanaWebhookSecret>>

\* let ticketStatesCache = null
NoCache == [loaded |-> FALSE, states |-> <<>>]

\* ------------------------------------------------------------ request records
\* no HTTP request made
NoOutcome == [download |-> "none", upload |-> "none", data |-> {}]

NoCard == [card |-> "none", task |-> 0]
Card(c, task) == [card |-> c, task |-> task]

\* customFields[fieldGid] of the task payload: not set, or set to a text
NoEntry == [entry |-> "none", text |-> <<>>]
Entry(how, text) == [entry |-> how, text |-> text]

\* what the calls awaited together by one Promise.all have returned so far
NoJoin ==
  [ticket |-> [ok |-> FALSE, link |-> 0, urls |-> <<>>],
   schema |-> <<>>,
   contact |-> NULL,
   story |-> [outcome |-> "none", subtype |-> NULL, text |-> <<>>],
   conv |-> [found |-> FALSE, conversationId |-> NULL]]

Request(kind, t, p, answered) ==
  [kind |-> kind, ticket |-> t, project |-> p, pc |-> "start",
   after |-> answered,   \* the requests already answered when this one arrived
   seen |-> -1,          \* 'Asana Task ID' as fetched (0: empty, -1: no fetch yet)
   urls |-> <<>>,        \* attachmentUrls collected from the ticket
   results |-> <<>>,     \* attachmentResults
   convGid |-> NULL,     \* key of the conversation-id custom field in the payload
   task |-> 0,           \* gid of the task this request created / found
   count |-> 0,          \* successCount of a Sync Files request
   event |-> 0,          \* the note or story a webhook delivery is about
   conv |-> NULL,        \* the conversation a webhook resolved
   msg |-> 0,            \* the note or story a webhook examines, 0 for none
   posted |-> FALSE,     \* whether a webhook's relayed message was accepted
   text |-> <<>>,        \* a webhook's text: plainTextBody, or ticketStatus
   type |-> NULL,        \* ticketTypeId of a status sync
   close |-> FALSE,      \* shouldCloseTicket of a status sync
   stateId |-> 0,        \* the ticket_state_id a status sync resolved, 0: none
   field |-> NULL,       \* event.change.field of a task-changed event
   secret |-> NULL,      \* the x-hook-secret header of the request
   echo |-> NULL,        \* the X-Hook-Secret header of the response
   value |-> NULL,       \* what a call of uploadAttachmentToAsana returned
   calls |-> 0,          \* the HTTP requests a call of uploadAttachmentToAsana made
   outcome |-> NoOutcome,  \* what the HTTP requests of that call met
   date |-> 0,           \* the dateValue a date function was called with
   zone |-> 0,           \* the UTC offset of the server's time zone, in hours
   formatted |-> <<>>,   \* what the date function returned, <<>> for null
   fields |-> <<>>,      \* the custom_fields a task lookup was answered with
   fetched |-> FALSE,    \* the lookup's GET was answered with a 2xx
   schemaFetch |-> FALSE, \* the request has fetched its project's field schema
   raw |-> NULL,         \* the text of the attribute value a field was mapped from
   fieldValue |-> [kind |-> "absent", items |-> <<>>, url |-> NULL],
                         \* the attribute value the URLs were extracted from
   payload |-> NoEntry,  \* what the mapping put in customFields for the field
   order |-> <<>>,       \* the calls of a Promise.all in the order they settled
   got |-> NoJoin,       \* what each of them returned
   resp |-> NoCard]

Answered == {i \in 1..Len(reqs) : reqs[i].resp # NoCard}

Respond(i, r, card) ==
  reqs' = [reqs EXCEPT ![i] = [r EXCEPT !.pc = "done", !.resp = card]]

Goto(i, r, pc) == reqs' = [reqs EXCEPT ![i] = [r EXCEPT !.pc = pc]]

At(i, kind, pc) ==
  /\ i \in 1..Len(reqs)
  /\ reqs[i].kind = kind
  /\ reqs[i].pc = pc

\* ------------------------------------------------------------ remote systems
\* PUT /tickets/{id} with ticket_attributes {'Asana Task ID': id}: Intercom
\* stores the attribute and leaves every other attribute of the ticket alone
PutAsanaTaskId(t, task) ==
  /\ tickets' = [tickets EXCEPT ![t].link = task]
  /\ putLog' = Append(putLog, <<t, task>>)

\* a write that keeps an id the attribute already holds
updateTicketAttribute_KeepFirst(t, task, ok) ==
  IF ok /\ tickets[t].link = 0 THEN PutAsanaTaskId(t, task)
  ELSE IF ok THEN /\ putLog' = Append(putLog, <<t, task>>)
                  /\ UNCHANGED tickets
  ELSE UNCHANGED <<tickets, putLog>>

\* updateTicketAttribute(ticketId, asanaTaskId): the PUT, whose failure is
\* caught and returned as false
updateTicketAttribute(t, task, ok) ==
  IF ok THEN PutAsanaTaskId(t, task)
  ELSE UNCHANGED <<tickets, putLog>>

\* the gid a schema gives the field called name (the forEach keeps the last
\* setting of that name), or NULL
GidOf(settings, name) ==
  LET hits == {k \in 1..Len(settings) : settings[k].name = name} IN
  IF hits = {} THEN NULL
  ELSE settings[CHOOSE k \in hits : \A h \in hits : h <= k].gid

\* customFieldsCache: null, or the custom field settings last mapped
NoFieldsCache == [loaded |-> FALSE, settings |-> <<>>]
FieldsCache(settings) == [loaded |-> TRUE, settings |-> settings]

\* initializeCustomFieldMappings(settings): the gid of every critical field
\* the schema holds is stored; an absent field leaves the old gid in place,
\* and an absent or empty schema returns before anything is stored
initializeCustomFieldMappings(settings) ==
  IF settings = <<>>
  THEN UNCHANGED <<ASANA_CUSTOM_FIELDS, customFieldsCache>>
  ELSE /\ ASANA_CUSTOM_FIELDS' =
            [INTERCOM_CONVERSATION_ID |->
               IF GidOf(settings, "Intercom Conversation ID") # NULL
               THEN GidOf(settings, "Intercom Conversation ID")
               ELSE ASANA_CUSTOM_FIELDS.INTERCOM_CONVERSATION_ID,
             TICKET_STATUS |->
               IF GidOf(settings, "Ticket Status") # NULL
               THEN GidOf(settings, "Ticket Status")
               ELSE ASANA_CUSTOM_FIELDS.TICKET_STATUS]
       /\ customFieldsCache' = FieldsCache(settings)

\* what the submit handler ends up passing to initializeCustomFieldMappings:
\* the selected project's schema, or when that fetch failed the result of
\* the second fetch (of ASANA_PROJECT) made inside it, or nothing
FetchedSettings(p) ==
  {ProjectSchema(p), ProjectSchema(ASANA_PROJECT), <<>>}

\* ------------------------------------------------------------ /initialize
\* the synchronous head: without a conversation id the create card is sent
ReceiveInitialize(c) ==
  /\ Len(reqs) < MaxReq
  /\ LET r == Request("initialize", TicketOfConv(c), NULL, Answered) IN
       reqs' = Append(reqs,
                 IF c = NULL
                 THEN [r EXCEPT !.pc = "done", !.resp = Card("initial", 0)]
                 ELSE [r EXCEPT !.pc = "fetch"])
  /\ UNCHANGED <<tickets, notes, asanaTasks, asanaTaskToConversation,
                 ASANA_CUSTOM_FIELDS, customFieldsCache, enumOptions, putLog>>
  /\ UNCHANGED webhookState

\* getConversation(conversationId) and getTicket(ticketId), each yielding
\* nothing when its fetch failed; then the linked card or the create card
Initialize(i) ==
  /\ At(i, "initialize", "fetch")
  /\ \E conversationOk \in BOOLEAN, ticketOk \in BOOLEAN :
       LET asanaTaskId == IF conversationOk /\ ticketOk
                          THEN tickets[reqs[i].ticket].link ELSE 0 IN
       IF asanaTaskId # 0
       THEN Respond(i, [reqs[i] EXCEPT !.task = asanaTaskId],
                    Card("linked", asanaTaskId))
       ELSE Respond(i, reqs[i], Card("initial", 0))
  /\ UNCHANGED <<tickets, notes, asanaTasks, asanaTaskToConversation,
                 ASANA_CUSTOM_FIELDS, customFieldsCache, enumOptions, putLog>>
  /\ UNCHANGED webhookState

\* ------------------------------------------------------------ /submit
\* the synchronous head of the handler: the component_id dispatch and the
\* "No ticket found" throw
ReceiveSubmit(component, t, p) ==
  /\ Len(reqs) < MaxReq
  /\ LET r == Request(component, t, p, Answered) IN
       reqs' = Append(reqs,
         CASE component = "submit_button" /\ t = NULL ->
                [r EXCEPT !.pc = "done", !.resp = Card("error", 0)]
           [] component = "submit_button" -> [r EXCEPT !.pc = "fetch"]
           [] component = "sync_files_button" /\ t = NULL ->
                [r EXCEPT !.pc = "done", !.resp = Card("sync_error", 0)]
           [] component = "sync_files_button" -> [r EXCEPT !.pc = "fetch"]
           [] OTHER -> [r EXCEPT !.pc = "done", !.resp = Card("initial", 0)])
  /\ UNCHANGED <<tickets, notes, asanaTasks, asanaTaskToConversation,
                 ASANA_CUSTOM_FIELDS, customFieldsCache, enumOptions, putLog>>
  /\ UNCHANGED webhookState

\* a create-task that skips the existing-task check
CreateFetch_NoCheck(i) ==
  /\ At(i, "submit_button", "fetch")
  /\ \E ticketOk \in BOOLEAN, settings \in FetchedSettings(reqs[i].project) :
       /\ initializeCustomFieldMappings(settings)
       /\ IF ~ticketOk
          THEN Respond(i, [reqs[i] EXCEPT !.schemaFetch = TRUE], Card("error", 0))
          ELSE Goto(i, [reqs[i] EXCEPT !.schemaFetch = TRUE,
                                       !.seen = tickets[reqs[i].ticket].link], "fields")
  /\ UNCHANGED <<tickets, notes, asanaTasks, asanaTaskToConversation, putLog,
                 enumOptions>>
  /\ UNCHANGED webhookState

\* a create-task that fetches the schema and maps the fields only when the
\* cache is empty
CreateFetch_LazyInit(i) ==
  /\ At(i, "submit_button", "fetch")
  /\ \E ticketOk \in BOOLEAN, settings \in FetchedSettings(reqs[i].project) :
       LET t == reqs[i].ticket
           existingTaskId == tickets[t].link
           r == [reqs[i] EXCEPT !.schemaFetch = ~customFieldsCache.loaded]
       IN
       /\ IF customFieldsCache.loaded
          THEN UNCHANGED <<ASANA_CUSTOM_FIELDS, customFieldsCache>>
          ELSE initializeCustomFieldMappings(settings)
       /\ IF ~ticketOk
          THEN Respond(i, r, Card("error", 0))
          ELSE IF existingTaskId # 0
          THEN Respond(i, [r EXCEPT !.seen = existingTaskId,
                                    !.task = existingTaskId],
                       Card("exists", existingTaskId))
          ELSE Goto(i, [r EXCEPT !.seen = existingTaskId,
                                 !.urls = tickets[t].attachments], "fields")
  /\ UNCHANGED <<tickets, notes, asanaTasks, asanaTaskToConversation, putLog,
                 enumOptions>>
  /\ UNCHANGED webhookState

\* Promise.all([getTicket, getAsanaCustomFields, getContactName]), then
\* initializeCustomFieldMappings, the ticket check and the existing-task check
CreateFetch(i) ==
  /\ At(i, "submit_button", "fetch")
  /\ \E ticketOk \in BOOLEAN, settings \in FetchedSettings(reqs[i].project) :
       LET t == reqs[i].ticket
           existingTaskId == tickets[t].link
           r == [reqs[i] EXCEPT !.schemaFetch = TRUE]
       IN
       /\ initializeCustomFieldMappings(settings)
       /\ IF ~ticketOk
          THEN Respond(i, r, Card("error", 0))
          ELSE IF existingTaskId # 0
          THEN Respond(i, [r EXCEPT !.seen = existingTaskId,
                                    !.task = existingTaskId],
                       Card("exists", existingTaskId))
          ELSE Goto(i, [r EXCEPT !.seen = existingTaskId,
                                 !.urls = tickets[t].attachments], "fields")
  /\ UNCHANGED <<tickets, notes, asanaTasks, asanaTaskToConversation, putLog,
                 enumOptions>>
  /\ UNCHANGED webhookState

\* the custom_fields of the payload: after the enum lookups, the critical
\* fields are taken from ASANA_CUSTOM_FIELDS as it is at that moment
CreateFields(i) ==
  /\ At(i, "submit_button", "fields")
  /\ Goto(i, [reqs[i] EXCEPT !.convGid =
                  ASANA_CUSTOM_FIELDS.INTERCOM_CONVERSATION_ID], "create")
  /\ UNCHANGED <<tickets, notes, asanaTasks, asanaTaskToConversation,
                 ASANA_CUSTOM_FIELDS, customFieldsCache, enumOptions, putLog>>
  /\ UNCHANGED webhookState

\* the task Asana stores for a payload: the conversation id is kept when the
\* payload's key is the conversation-id field of the task's project
NewTask(r) ==
  [ticket |-> r.ticket, project |-> r.project,
   conv |-> IF r.convGid # NULL
               /\ r.convGid = GidOf(ProjectSchema(r.project), "Intercom Conversation ID")
            THEN ConvOf(r.ticket) ELSE NULL,
   status |-> <<>>,     \* the name of the 'Ticket Status' option set, if any
   stories |-> <<>>,    \* the comments and system stories of the task
   files |-> 0]

\* isValidUrl(string): the string parses as a URL whose protocol is http: or
\* https:
isValidUrl(string) == string \in {"http", "https"}

\* what the two HTTP requests of an upload can meet: the download answers
\* ok, answers with an error status or throws, and so does the upload, whose
\* response data holds any of the fields permanent_url, download_url and url
UploadOutcomes ==
  [download : {"error", "throws"}, upload : {"none"}, data : {{}}]
    \cup [download : {"ok"}, upload : {"error", "throws"}, data : {{}}]
    \cup [download : {"ok"}, upload : {"ok"},
           data : SUBSET {"permanent_url", "download_url", "url"}]

\* an upload that does not validate the URL before it downloads
uploadAttachmentToAsana_NoUrlCheck(attachmentUrl, out) ==
  IF out.download # "ok" THEN [value |-> NULL, calls |-> 1]
  ELSE IF out.upload # "ok" THEN [value |-> NULL, calls |-> 2]
  ELSE [value |-> IF "permanent_url" \in out.data THEN "permanent_url"
                  ELSE IF "download_url" \in out.data THEN "download_url"
                  ELSE IF "url" \in out.data THEN "url"
                  ELSE "uploaded",
        calls |-> 2]

\* an upload that prefers the download URL and has no sentinel
uploadAttachmentToAsana_DownloadUrlFirst(attachmentUrl, out) ==
  IF ~isValidUrl(attachmentUrl) THEN [value |-> NULL, calls |-> 0]
  ELSE IF out.download # "ok" THEN [value |-> NULL, calls |-> 1]
  ELSE IF out.upload # "ok" THEN [value |-> NULL, calls |-> 2]
  ELSE [value |-> IF "download_url" \in out.data THEN "download_url"
                  ELSE IF "permanent_url" \in out.data THEN "permanent_url"
                  ELSE IF "url" \in out.data THEN "url"
                  ELSE NULL,
        calls |-> 2]

\* uploadAttachmentToAsana(taskId, attachmentUrl) under an outcome of its
\* HTTP requests: the value returned (NULL for null) and the number of
\* requests made.  Every throw is caught and turned into null
uploadAttachmentToAsana(attachmentUrl, out) ==
  IF ~isValidUrl(attachmentUrl) THEN [value |-> NULL, calls |-> 0]
  ELSE IF out.download # "ok" THEN [value |-> NULL, calls |-> 1]
  ELSE IF out.upload # "ok" THEN [value |-> NULL, calls |-> 2]
  ELSE [value |-> IF "permanent_url" \in out.data THEN "permanent_url"
                  ELSE IF "download_url" \in out.data THEN "download_url"
                  ELSE IF "url" \in out.data THEN "url"
                  ELSE "uploaded",
        calls |-> 2]

\* the status create-task records for one attachment
AttachmentStatus(url, out) ==
  IF ~isValidUrl(url) THEN "invalid_url"
  ELSE IF uploadAttachmentToAsana(url, out).value # NULL
  THEN "success" ELSE "failed"

Count(seq, x) == Cardinality({k \in 1..Len(seq) : seq[k] = x})

\* a task creation whose rejection still records the task id it expected
CreateTask_RejectedStillLinks(i) ==
  /\ At(i, "submit_button", "create")
  /\ \E created \in BOOLEAN :
       IF created
       THEN /\ asanaTasks' = Append(asanaTasks, NewTask(reqs[i]))
            /\ Goto(i, [reqs[i] EXCEPT !.task = Len(asanaTasks) + 1],
                    IF Len(reqs[i].urls) > 0 THEN "attach" ELSE "link")
            /\ UNCHANGED asanaTaskToConversation
       ELSE /\ Respond(i, reqs[i], Card("error", 0))
            /\ asanaTaskToConversation' = asanaTaskToConversation
                 \cup {<<Len(asanaTasks) + 1, ConvOf(reqs[i].ticket)>>}
            /\ UNCHANGED asanaTasks
  /\ UNCHANGED <<tickets, notes, ASANA_CUSTOM_FIELDS, customFieldsCache, enumOptions, putLog>>
  /\ UNCHANGED webhookState

\* POST /tasks, where a rejected call throws into the error card; with
\* attachment URLs the attachment loop follows
CreateTask(i) ==
  /\ At(i, "submit_button", "create")
  /\ \E created \in BOOLEAN :
       IF created
       THEN /\ asanaTasks' = Append(asanaTasks, NewTask(reqs[i]))
            /\ Goto(i, [reqs[i] EXCEPT !.task = Len(asanaTasks) + 1],
                    IF Len(reqs[i].urls) > 0 THEN "attach" ELSE "link")
       ELSE /\ Respond(i, reqs[i], Card("error", 0))
            /\ UNCHANGED asanaTasks
  /\ UNCHANGED <<tickets, notes, asanaTaskToConversation, ASANA_CUSTOM_FIELDS, customFieldsCache, enumOptions, putLog>>
  /\ UNCHANGED webhookState

\* the entry of attachmentResults for one URL
AttachmentResult(attachmentUrl, out) ==
  [url |-> attachmentUrl,
   status |-> AttachmentStatus(attachmentUrl, out),
   permanentUrl |-> IF isValidUrl(attachmentUrl)
                    THEN uploadAttachmentToAsana(attachmentUrl, out).value
                    ELSE NULL]

\* an attachment loop that gives up at the first attachment not uploaded
CreateAttach_StopAtFirstFailure(i) ==
  /\ At(i, "submit_button", "attach")
  /\ \E out \in UploadOutcomes :
       LET r == reqs[i]
           k == Len(r.results) + 1
           result == AttachmentResult(r.urls[k], out)
       IN
       /\ asanaTasks' = [asanaTasks EXCEPT ![r.task].files =
              IF isValidUrl(r.urls[k]) /\ out.upload = "ok" THEN @ + 1 ELSE @]
       /\ Goto(i, [r EXCEPT !.results = Append(@, result)],
               IF k < Len(r.urls) /\ result.status = "success"
               THEN "attach" ELSE "link")
  /\ UNCHANGED <<tickets, notes, asanaTaskToConversation, ASANA_CUSTOM_FIELDS, customFieldsCache, enumOptions, putLog>>
  /\ UNCHANGED webhookState

\* an attachment loop in which an upload that fails ends the request with the
\* error card
CreateAttach_FailureIsFatal(i) ==
  /\ At(i, "submit_button", "attach")
  /\ \E out \in UploadOutcomes :
       LET r == reqs[i]
           k == Len(r.results) + 1
           result == AttachmentResult(r.urls[k], out)
       IN
       /\ asanaTasks' = [asanaTasks EXCEPT ![r.task].files =
              IF isValidUrl(r.urls[k]) /\ out.upload = "ok" THEN @ + 1 ELSE @]
       /\ IF result.status = "failed"
          THEN Respond(i, [r EXCEPT !.results = Append(@, result)], Card("error", 0))
          ELSE Goto(i, [r EXCEPT !.results = Append(@, result)],
                    IF k < Len(r.urls) THEN "attach" ELSE "link")
  /\ UNCHANGED <<tickets, notes, asanaTaskToConversation, ASANA_CUSTOM_FIELDS, customFieldsCache, enumOptions, putLog>>
  /\ UNCHANGED webhookState

\* one round of the attachment loop: the next URL is checked and, when it is
\* valid, uploaded to the new task; its entry is pushed and the loop goes on
\* to the next URL whatever the entry says
CreateAttach(i) ==
  /\ At(i, "submit_button", "attach")
  /\ \E out \in UploadOutcomes :
       LET r == reqs[i]
           k == Len(r.results) + 1
           result == AttachmentResult(r.urls[k], out)
       IN
       /\ asanaTasks' = [asanaTasks EXCEPT ![r.task].files =
              IF isValidUrl(r.urls[k]) /\ out.upload = "ok" THEN @ + 1 ELSE @]
       /\ Goto(i, [r EXCEPT !.results = Append(@, result)],
               IF k < Len(r.urls) THEN "attach" ELSE "link")
  /\ UNCHANGED <<tickets, notes, asanaTaskToConversation, ASANA_CUSTOM_FIELDS, customFieldsCache, enumOptions, putLog>>
  /\ UNCHANGED webhookState

\* a link write that puts the entry of the in-memory map in the same step
CreateLink_MapWithWrite(i) ==
  /\ At(i, "submit_button", "link")
  /\ \E ok \in BOOLEAN : updateTicketAttribute(reqs[i].ticket, reqs[i].task, ok)
  /\ asanaTaskToConversation' =
       asanaTaskToConversation \cup {<<reqs[i].task, ConvOf(reqs[i].ticket)>>}
  /\ Goto(i, reqs[i], "store")
  /\ UNCHANGED <<notes, asanaTasks, ASANA_CUSTOM_FIELDS, customFieldsCache, enumOptions>>
  /\ UNCHANGED webhookState

\* await updateTicketAttribute(ticketId, asanaTaskId): the result is dropped
CreateLink(i) ==
  /\ At(i, "submit_button", "link")
  /\ \E ok \in BOOLEAN : updateTicketAttribute(reqs[i].ticket, reqs[i].task, ok)
  /\ Goto(i, reqs[i], "store")
  /\ UNCHANGED <<notes, asanaTasks, asanaTaskToConversation, ASANA_CUSTOM_FIELDS, customFieldsCache, enumOptions>>
  /\ UNCHANGED webhookState

\* asanaTaskToConversation.set(asanaTaskId, conversationId); successCanvas
\* a store that keeps one entry per conversation: the entries of older tasks
\* of the same conversation are dropped
CreateStore_OnePerConversation(i) ==
  /\ At(i, "submit_button", "store")
  /\ asanaTaskToConversation' =
       {e \in asanaTaskToConversation : e[2] # ConvOf(reqs[i].ticket)}
         \cup {<<reqs[i].task, ConvOf(reqs[i].ticket)>>}
  /\ Respond(i, reqs[i], Card("created", reqs[i].task))
  /\ UNCHANGED <<tickets, notes, asanaTasks, ASANA_CUSTOM_FIELDS, customFieldsCache, enumOptions, putLog>>
  /\ UNCHANGED webhookState

CreateStore(i) ==
  /\ At(i, "submit_button", "store")
  /\ asanaTaskToConversation' =
       {e \in asanaTaskToConversation : e[1] # reqs[i].task}
         \cup {<<reqs[i].task, ConvOf(reqs[i].ticket)>>}
  /\ Respond(i, reqs[i], Card("created", reqs[i].task))
  /\ UNCHANGED <<tickets, notes, asanaTasks, ASANA_CUSTOM_FIELDS, customFieldsCache, enumOptions, putLog>>
  /\ UNCHANGED webhookState

\* ------------------------------------------------------------ note texts
\* A text is a sequence of tokens: a provenance tag, an HTML tag, the entity
\* &nbsp;, white space, or a word.
TagAsanaComment == "[Asana Comment by"
TagAsanaFileSync == "[Asana File Sync]"
TagFileSync == "[File Sync from Intercom to Asana]"
TagIntercomNote == "[Intercom Note by"

HtmlTags == {"<b>", "</b>", "<br>", "<p>", "</p>"}
WhiteSpace == {" ", "\n"}

\* a note as Intercom stores it
Note(body, att, app, origin, src) ==
  [body |-> body,      \* the HTML body
   att |-> att,        \* number of attachments of the part
   app |-> app,        \* whether the part carries an app_package_code
   origin |-> origin,  \* who wrote it: "user", "app", or the integration's handler
   src |-> src]        \* the story a relayed note was made from, 0 for none

\* POST /conversations/{id}/reply with message_type note
PostNote(c, note) == notes' = [notes EXCEPT ![c] = Append(@, note)]

\* a ticket attribute as extractAttachmentUrls gets it: absent (or another
\* falsy value), a list of elements, one object, a string or a number.  An
\* element or object has a url or none (NULL; also for a null element); the
\* url and the string are given by their kind
FieldValue(kind, items, url) == [kind |-> kind, items |-> items, url |-> url]
NoValue == FieldValue("absent", <<>>, NULL)

\* the list of file objects with these urls
FileList(files) ==
  FieldValue("list", [k \in 1..Len(files) |-> [url |-> files[k]]], NULL)

RECURSIVE PushUrls(_)
\* the loop over the elements of a list: the url of every element that has
\* one is pushed
PushUrls(items) ==
  IF items = <<>> THEN <<>>
  ELSE (IF Head(items).url # NULL THEN <<Head(items).url>> ELSE <<>>)
         \o PushUrls(Tail(items))

\* an extraction that keeps only the http and https urls of a list
extractAttachmentUrls_ValidUrlsOnly(fieldValue) ==
  IF fieldValue.kind = "absent" THEN <<>>
  ELSE IF fieldValue.kind = "list" /\ Len(fieldValue.items) > 0
  THEN LET kept == SelectSeq(fieldValue.items, LAMBDA x : isValidUrl(x.url))
       IN [k \in 1..Len(kept) |-> kept[k].url]
  ELSE IF fieldValue.kind = "object" /\ fieldValue.url # NULL
  THEN <<fieldValue.url>>
  ELSE IF fieldValue.kind = "string" /\ isValidUrl(fieldValue.url)
  THEN <<fieldValue.url>>
  ELSE <<>>

\* extractAttachmentUrls(fieldValue): nothing for a falsy value; for a
\* non-empty list the url of every element that has one, in order; for an
\* object with a url that url; otherwise String(fieldValue) when it is a
\* valid URL, which only a string can be
extractAttachmentUrls(fieldValue) ==
  IF fieldValue.kind = "absent" THEN <<>>
  ELSE IF fieldValue.kind = "list" /\ Len(fieldValue.items) > 0
  THEN PushUrls(fieldValue.items)
  ELSE IF fieldValue.kind = "object" /\ fieldValue.url # NULL
  THEN <<fieldValue.url>>
  ELSE IF fieldValue.kind = "string" /\ isValidUrl(fieldValue.url)
  THEN <<fieldValue.url>>
  ELSE <<>>

\* ------------------------------------------------------------ Sync Files
\* getTicket, the linked-task check, the 'Intercom to Asana' field and the
\* upload loop: successCount counts the files uploadAttachmentToAsana returned
\* a value for
SyncFetch(i) ==
  /\ At(i, "sync_files_button", "fetch")
  /\ \E fetched \in BOOLEAN :
       LET tk == tickets[reqs[i].ticket]
           fileUrls == extractAttachmentUrls(FileList(tk.files))
       IN
       IF ~fetched \/ tk.link = 0
       THEN /\ Respond(i, reqs[i], Card("sync_error", 0))
            /\ UNCHANGED asanaTasks
       ELSE IF tk.files = <<>>
       THEN /\ Respond(i, [reqs[i] EXCEPT !.task = tk.link], Card("no_files", tk.link))
            /\ UNCHANGED asanaTasks
       ELSE \E out \in [1..Len(fileUrls) -> UploadOutcomes] :
              LET res == [k \in 1..Len(fileUrls) |->
                            IF uploadAttachmentToAsana(fileUrls[k], out[k]).value # NULL
                            THEN "success" ELSE "failed"]
                  successCount == Count(res, "success")
              IN
              /\ asanaTasks' = [asanaTasks EXCEPT ![tk.link].files = @ + successCount]
              /\ Goto(i, [reqs[i] EXCEPT !.task = tk.link, !.urls = fileUrls,
                                         !.results = res, !.count = successCount],
                      IF successCount > 0 THEN "note" ELSE "clear")
  /\ UNCHANGED <<tickets, notes, asanaTaskToConversation, ASANA_CUSTOM_FIELDS, customFieldsCache, enumOptions, putLog>>
  /\ UNCHANGED webhookState

\* the file-sync note on the conversation; a fetch that throws ends in the
\* error card, a rejected post is only logged
SyncNote(i) ==
  /\ At(i, "sync_files_button", "note")
  /\ \E outcome \in {"ok", "rejected", "throws"} :
       /\ IF outcome = "ok"
          THEN \E app \in BOOLEAN :
                 PostNote(ConvOf(reqs[i].ticket),
                          Note(<<TagFileSync, "\n", "\n", "text">>,
                               reqs[i].count, app, "sync_files", 0))
          ELSE UNCHANGED notes
       /\ IF outcome = "throws"
          THEN Respond(i, reqs[i], Card("sync_error", 0))
          ELSE Goto(i, reqs[i], "clear")
  /\ UNCHANGED <<tickets, asanaTasks, asanaTaskToConversation,
                 ASANA_CUSTOM_FIELDS, customFieldsCache, enumOptions, putLog>>
  /\ UNCHANGED webhookState

\* a write that replaces the whole attribute set of the ticket
PutFilesCleared_AllAttributes(t) ==
  tickets' = [tickets EXCEPT ![t].files = <<>>, ![t].link = 0]

\* PUT /tickets/{id} with ticket_attributes {'Intercom to Asana': []}:
\* Intercom empties that attribute and leaves the others alone
PutFilesCleared(t) == tickets' = [tickets EXCEPT ![t].files = <<>>]

\* the clearing of 'Intercom to Asana' that ends a Sync Files submit
SyncClear(i) ==
  /\ At(i, "sync_files_button", "clear")
  /\ \E outcome \in {"ok", "rejected", "throws"} :
       /\ IF outcome = "ok"
          THEN PutFilesCleared(reqs[i].ticket)
          ELSE UNCHANGED tickets
       /\ IF outcome = "throws"
          THEN Respond(i, reqs[i], Card("sync_error", 0))
          ELSE Respond(i, reqs[i], Card("synced", reqs[i].task))
  /\ UNCHANGED <<notes, asanaTasks, asanaTaskToConversation,
                 ASANA_CUSTOM_FIELDS, customFieldsCache, enumOptions, putLog>>
  /\ UNCHANGED webhookState

\* ------------------------------------------------------------ texts
\* .replace(/<[^>]*>/g, '').replace(/&nbsp;/g, ' ')
StripHtml(body) ==
  LET kept == SelectSeq(body, LAMBDA x : x \notin HtmlTags) IN
  [k \in 1..Len(kept) |-> IF kept[k] = "&nbsp;" THEN " " ELSE kept[k]]

RECURSIVE TrimStart(_)
TrimStart(s) ==
  IF Len(s) > 0 /\ s[1] \in WhiteSpace THEN TrimStart(Tail(s)) ELSE s

RECURSIVE TrimEnd(_)
TrimEnd(s) ==
  IF Len(s) > 0 /\ s[Len(s)] \in WhiteSpace
  THEN TrimEnd(SubSeq(s, 1, Len(s) - 1)) ELSE s

\* String.prototype.trim
Trim(s) == TrimEnd(TrimStart(s))

plainTextBody(noteBody) == Trim(StripHtml(noteBody))

\* String.prototype.startsWith
StartsWith(s, tag) == Len(s) > 0 /\ s[1] = tag

\* a tag guard that knows the comment tag only
SyncedFromAsana_CommentTagOnly(plain) == StartsWith(plain, TagAsanaComment)

\* the tag guard of /intercom-webhook
SyncedFromAsana(plain) ==
  \/ StartsWith(plain, TagAsanaComment)
  \/ StartsWith(plain, TagAsanaFileSync)
  \/ StartsWith(plain, TagFileSync)

\* ------------------------------------------------------------ Asana stories
Story(text, subtype, app, origin, src) ==
  [text |-> text,        \* story.text
   subtype |-> subtype,  \* resource_subtype
   app |-> app,          \* whether the story was made through the API by an app
   origin |-> origin,    \* who wrote it: "user", "app", or the integration's handler
   src |-> src]          \* the note a relayed comment was made from, 0 for none

\* custom_fields of GET /tasks/{gid}: the fields of the task's project in the
\* project's order, with the values the task holds
TaskCustomFields(task) ==
  LET schema == ProjectSchema(task.project) IN
  [k \in 1..Len(schema) |->
     [gid |-> schema[k].gid, name |-> schema[k].name,
      text_value |-> IF schema[k].name = "Intercom Conversation ID"
                     THEN task.conv ELSE NULL,
      enum_value |-> IF schema[k].name = "Ticket Status"
                     THEN task.status ELSE <<>>]]

\* asanaTaskToConversation.get(taskId)
MapEntry(taskId) ==
  IF \E e \in asanaTaskToConversation : e[1] = taskId
  THEN (CHOOSE e \in asanaTaskToConversation : e[1] = taskId)[2]
  ELSE NULL

\* the loop over the custom fields of a fetched task and the fallback: the
\* loop stops at the first field whose gid is the mapped one or whose name is
\* 'Intercom Conversation ID' and takes its value; a falsy value leaves the
\* entry of asanaTaskToConversation
ConversationIdIn(customFields, taskId) ==
  LET hits == {k \in 1..Len(customFields) :
                 \/ customFields[k].gid = ASANA_CUSTOM_FIELDS.INTERCOM_CONVERSATION_ID
                 \/ customFields[k].name = "Intercom Conversation ID"}
      value == IF hits = {} THEN NULL
               ELSE customFields[CHOOSE k \in hits : \A h \in hits : k <= h].text_value
  IN IF value \notin {NULL, ""} THEN value ELSE MapEntry(taskId)

\* getConversationIdFromTask(taskId): nothing when the task fetch failed;
\* otherwise the value of the first custom field matching by gid or by name,
\* and when that gives no value the entry of asanaTaskToConversation
getConversationIdFromTask(taskId, ok) ==
  IF ~ok
  THEN [found |-> FALSE, conversationId |-> NULL, custom_fields |-> <<>>]
  ELSE LET customFields == TaskCustomFields(asanaTasks[taskId])
       IN [found |-> TRUE,
           conversationId |-> ConversationIdIn(customFields, taskId),
           custom_fields |-> customFields]

\* ------------------------------------------------------------ the users
\* what a teammate or another Intercom app writes as a note:
\* <<conversation, body, number of attachments, app_package_code present>>
NoteInputs ==
  {<<"V1", <<"<p>", "&nbsp;", "hello", "</p>">>, 1, FALSE>>,
   <<"V1", <<"<p>", "hello", "</p>">>, 1, TRUE>>,
   <<"V1", <<"<p>", "&nbsp;", TagAsanaComment, "x]", "</p>">>, 0, FALSE>>,
   <<"V1", <<"<p>", "</p>">>, 1, FALSE>>,
   <<"V2", <<"<p>", "hello", "</p>">>, 0, FALSE>>}

\* what a collaborator or another Asana app adds to a task:
\* <<text, resource_subtype, made by an app>>
StoryInputs ==
  {<<<<"hi", " ", "asset_url">>, "comment_added", FALSE>>,
   <<<<"hi">>, "comment_added", TRUE>>,
   <<<<TagIntercomNote, "x]", "\n", "hi">>, "comment_added", FALSE>>,
   <<<<"moved">>, "system", FALSE>>}

Authors == {"user", "app"}

\* the number of notes and stories that are not a webhook's relayed copy
Written ==
  LET NotesOf(c) == {k \in 1..Len(notes[c]) :
                       notes[c][k].origin \in Authors \cup {"sync_files"}}
      StoriesOf(g) == {k \in 1..Len(asanaTasks[g].stories) :
                         asanaTasks[g].stories[k].origin \in Authors}
      RECURSIVE Sum(_, _)
      Sum(f, S) == IF S = {} THEN 0
                   ELSE LET x == CHOOSE x \in S : TRUE IN f[x] + Sum(f, S \ {x})
  IN Sum([c \in Conversations |-> Cardinality(NotesOf(c))], Conversations)
     + Sum([g \in 1..Len(asanaTasks) |-> Cardinality(StoriesOf(g))],
           1..Len(asanaTasks))

\* a note is written on a conversation in Intercom
WriteNote(in) ==
  /\ Written < MaxNotes
  /\ PostNote(in[1], Note(in[2], in[3], in[4],
                          IF in[4] THEN "app" ELSE "user", 0))
  /\ UNCHANGED <<tickets, asanaTasks, asanaTaskToConversation,
                 ASANA_CUSTOM_FIELDS, customFieldsCache, enumOptions, reqs, putLog, delivered,
                 asanaWebhookSecret, ticketStates, ticketStatesCache>>

\* a story is added to a task in Asana
WriteStory(g, in) ==
  /\ Written < MaxNotes
  /\ asanaTasks' = [asanaTasks EXCEPT ![g].stories =
       Append(@, Story(in[1], in[2], in[3],
                       IF in[3] THEN "app" ELSE "user", 0))]
  /\ UNCHANGED <<tickets, notes, asanaTaskToConversation,
                 ASANA_CUSTOM_FIELDS, customFieldsCache, enumOptions, reqs, putLog, delivered,
                 asanaWebhookSecret, ticketStates, ticketStatesCache>>

\* ------------------------------------------------------------ /intercom-webhook
\* the workspace subscribes the webhook to one of the two note topics: every
\* note event of a run arrives under the topic of the first
Subscribed(topic) ==
  \A i \in 1..Len(reqs) :
    reqs[i].kind \in {"ticket.note.created", "conversation.admin.noted"}
      => reqs[i].kind = topic

Ack == Card("200", 0)
Fail == Card("500", 0)

\* topic ticket.note.created, up to the first await: the linked-task check on
\* the ticket of the payload, the app_package_code guard and the tag guard on
\* the ticket_part of the payload
ReceiveNoteCreated(c, k) ==
  /\ Len(reqs) < MaxReq
  /\ Subscribed("ticket.note.created")
  /\ k \in 1..Len(notes[c])
  /\ <<"note", c, k>> \notin delivered
  /\ delivered' = delivered \cup {<<"note", c, k>>}
  /\ LET ticketPart == notes[c][k]
         asanaTaskId == tickets[TicketOfConv(c)].link
         plain == plainTextBody(ticketPart.body)
         r == [Request("ticket.note.created", TicketOfConv(c), NULL, {})
                 EXCEPT !.event = k, !.conv = c, !.msg = k,
                        !.task = asanaTaskId, !.text = plain]
     IN reqs' = Append(reqs,
          IF asanaTaskId = 0 \/ ticketPart.app \/ SyncedFromAsana(plain)
          THEN [r EXCEPT !.pc = "done", !.resp = Ack]
          ELSE [r EXCEPT !.pc = "relay"])
  /\ UNCHANGED <<tickets, notes, asanaTasks, asanaTaskToConversation,
                 ASANA_CUSTOM_FIELDS, customFieldsCache, enumOptions, putLog, asanaWebhookSecret, ticketStates, ticketStatesCache>>

\* POST /tasks/{gid}/stories with the tagged text, unless skipText holds, and
\* then the upload of every attachment of the note: a fetch that throws ends
\* in 500, a rejected post is only logged, uploads never throw
RelayNote(i, skipText) ==
  \E outcome \in {"ok", "rejected", "throws"} :
    LET r == reqs[i]
        note == notes[r.conv][r.msg]
        commentBody == <<TagIntercomNote, "Admin]", "\n">> \o r.text
    IN
    IF ~skipText /\ outcome = "throws"
    THEN /\ Respond(i, r, Fail)
         /\ UNCHANGED asanaTasks
    ELSE \E uploaded \in 0..note.att :
           /\ asanaTasks' = [asanaTasks EXCEPT
                ![r.task].stories =
                   IF ~skipText /\ outcome = "ok"
                   THEN Append(@, Story(commentBody, "comment_added", TRUE,
                                        r.kind, r.msg))
                   ELSE @,
                ![r.task].files = @ + uploaded]
           /\ Respond(i, [r EXCEPT !.count = uploaded,
                                    !.posted = ~skipText /\ outcome = "ok"], Ack)

\* topic ticket.note.created, the relay: the comment is posted only when the
\* note has text
NoteRelay(i) ==
  /\ At(i, "ticket.note.created", "relay")
  /\ RelayNote(i, reqs[i].text = <<>>)
  /\ UNCHANGED <<tickets, notes, asanaTaskToConversation, ASANA_CUSTOM_FIELDS, customFieldsCache, enumOptions,
                 putLog, delivered, asanaWebhookSecret, ticketStates, ticketStatesCache>>

\* topic conversation.admin.noted, up to the first await: the payload gives
\* only the conversation id
ReceiveAdminNoted(c, k) ==
  /\ Len(reqs) < MaxReq
  /\ Subscribed("conversation.admin.noted")
  /\ k \in 1..Len(notes[c])
  /\ <<"note", c, k>> \notin delivered
  /\ delivered' = delivered \cup {<<"note", c, k>>}
  /\ reqs' = Append(reqs,
       [Request("conversation.admin.noted", NULL, NULL, {})
          EXCEPT !.event = k, !.conv = c, !.pc = "conversation"])
  /\ UNCHANGED <<tickets, notes, asanaTasks, asanaTaskToConversation,
                 ASANA_CUSTOM_FIELDS, customFieldsCache, enumOptions, putLog, asanaWebhookSecret, ticketStates, ticketStatesCache>>

\* the last part of a conversation that is a note with a body, 0 for none
LatestNote(parts) ==
  LET hits == {k \in 1..Len(parts) : Len(parts[k].body) > 0} IN
  IF hits = {} THEN 0 ELSE CHOOSE k \in hits : \A h \in hits : h <= k

\* getConversation(conversationId): the ticket id and the parts as they are
\* at this moment
LegacyConversation(i) ==
  /\ At(i, "conversation.admin.noted", "conversation")
  /\ \E ok \in BOOLEAN :
       IF ~ok THEN Respond(i, reqs[i], Ack)
       ELSE Goto(i, [reqs[i] EXCEPT !.ticket = TicketOfConv(reqs[i].conv),
                                    !.msg = LatestNote(notes[reqs[i].conv])],
                 "ticket")
  /\ UNCHANGED <<tickets, notes, asanaTasks, asanaTaskToConversation,
                 ASANA_CUSTOM_FIELDS, customFieldsCache, enumOptions, putLog, delivered, asanaWebhookSecret, ticketStates,
                 ticketStatesCache>>

\* a legacy handler without the app_package_code guard
LegacyTicket_NoAppGuard(i) ==
  /\ At(i, "conversation.admin.noted", "ticket")
  /\ \E ok \in BOOLEAN :
       LET r == reqs[i]
           asanaTaskId == IF ok THEN tickets[r.ticket].link ELSE 0
           plain == plainTextBody(notes[r.conv][r.msg].body)
       IN
       IF asanaTaskId = 0 \/ r.msg = 0
       THEN Respond(i, r, Ack)
       ELSE IF SyncedFromAsana(plain)
       THEN Respond(i, [r EXCEPT !.task = asanaTaskId, !.text = plain], Ack)
       ELSE Goto(i, [r EXCEPT !.task = asanaTaskId, !.text = plain], "relay")
  /\ UNCHANGED <<tickets, notes, asanaTasks, asanaTaskToConversation,
                 ASANA_CUSTOM_FIELDS, customFieldsCache, enumOptions, putLog, delivered, asanaWebhookSecret, ticketStates,
                 ticketStatesCache>>

\* getTicket(ticketId), the linked-task check, and on the latest note the
\* app_package_code guard and the tag guard
LegacyTicket(i) ==
  /\ At(i, "conversation.admin.noted", "ticket")
  /\ \E ok \in BOOLEAN :
       LET r == reqs[i]
           asanaTaskId == IF ok THEN tickets[r.ticket].link ELSE 0
           plain == plainTextBody(notes[r.conv][r.msg].body)
       IN
       IF asanaTaskId = 0 \/ r.msg = 0
       THEN Respond(i, r, Ack)
       ELSE IF notes[r.conv][r.msg].app \/ SyncedFromAsana(plain)
       THEN Respond(i, [r EXCEPT !.task = asanaTaskId, !.text = plain], Ack)
       ELSE Goto(i, [r EXCEPT !.task = asanaTaskId, !.text = plain], "relay")
  /\ UNCHANGED <<tickets, notes, asanaTasks, asanaTaskToConversation,
                 ASANA_CUSTOM_FIELDS, customFieldsCache, enumOptions, putLog, delivered, asanaWebhookSecret, ticketStates,
                 ticketStatesCache>>

\* topic conversation.admin.noted, the relay: the comment is always posted
LegacyRelay(i) ==
  /\ At(i, "conversation.admin.noted", "relay")
  /\ RelayNote(i, FALSE)
  /\ UNCHANGED <<tickets, notes, asanaTaskToConversation, ASANA_CUSTOM_FIELDS, customFieldsCache, enumOptions,
                 putLog, delivered, asanaWebhookSecret, ticketStates, ticketStatesCache>>

\* ------------------------------------------------------------ /asana-webhook-prod
\* an event 'story added to a task': the payload gives the two gids
ReceiveStoryAdded(g, k) ==
  /\ Len(reqs) < MaxReq
  /\ g \in 1..Len(asanaTasks)
  /\ k \in 1..Len(asanaTasks[g].stories)
  /\ <<"story", g, k>> \notin delivered
  /\ delivered' = delivered \cup {<<"story", g, k>>}
  /\ reqs' = Append(reqs,
       [Request("story_added", NULL, NULL, {})
          EXCEPT !.event = k, !.task = g, !.pc = "fetch"])
  /\ UNCHANGED <<tickets, notes, asanaTasks, asanaTaskToConversation,
                 ASANA_CUSTOM_FIELDS, customFieldsCache, enumOptions, putLog, asanaWebhookSecret, ticketStates, ticketStatesCache>>

\* story.text without the Asana asset URLs, trimmed; a placeholder when
\* nothing is left
cleanCommentText(text) ==
  LET clean == Trim(SelectSeq(text, LAMBDA x : x # "asset_url")) IN
  IF Len(clean) = 0 THEN <<"(attachment only)">> ELSE clean

\* a story handler without the tag guard
StoryFetch_NoTagGuard(i) ==
  /\ At(i, "story_added", "fetch")
  /\ \E outcome \in {"ok", "rejected", "throws"}, taskOk \in BOOLEAN :
       LET r == reqs[i]
           story == asanaTasks[r.task].stories[r.event]
           result == getConversationIdFromTask(r.task, taskOk)
       IN
       IF outcome = "throws" THEN Respond(i, r, Fail)
       ELSE IF outcome = "rejected" THEN Respond(i, r, Ack)
       ELSE IF story.subtype # "comment_added" \/ Len(story.text) = 0
       THEN Respond(i, [r EXCEPT !.msg = r.event], Ack)
       ELSE IF ~result.found \/ result.conversationId = NULL
       THEN Respond(i, [r EXCEPT !.msg = r.event], Ack)
       ELSE Goto(i, [r EXCEPT !.msg = r.event,
                              !.conv = result.conversationId,
                              !.text = cleanCommentText(story.text),
                              !.count = Count(story.text, "asset_url")],
                 "reply")
  /\ UNCHANGED <<tickets, notes, asanaTasks, asanaTaskToConversation,
                 ASANA_CUSTOM_FIELDS, customFieldsCache, enumOptions, putLog, delivered, asanaWebhookSecret, ticketStates,
                 ticketStatesCache>>

\* a story branch that leaves the handler at a tagged comment, before the
\* response is sent
StoryFetch_ReturnOnTagged(i) ==
  /\ At(i, "story_added", "fetch")
  /\ \E outcome \in {"ok", "rejected", "throws"}, taskOk \in BOOLEAN :
       LET r == reqs[i]
           story == asanaTasks[r.task].stories[r.event]
           result == getConversationIdFromTask(r.task, taskOk)
       IN
       IF outcome = "throws" THEN Respond(i, r, Fail)
       ELSE IF outcome = "rejected" THEN Respond(i, r, Ack)
       ELSE IF story.subtype # "comment_added" \/ Len(story.text) = 0
       THEN Respond(i, [r EXCEPT !.msg = r.event], Ack)
       ELSE IF StartsWith(story.text, TagIntercomNote)
       THEN Goto(i, [r EXCEPT !.msg = r.event], "done")
       ELSE IF ~result.found \/ result.conversationId = NULL
       THEN Respond(i, [r EXCEPT !.msg = r.event], Ack)
       ELSE Goto(i, [r EXCEPT !.msg = r.event,
                              !.conv = result.conversationId,
                              !.text = cleanCommentText(story.text),
                              !.count = Count(story.text, "asset_url")],
                 "reply")
  /\ UNCHANGED <<tickets, notes, asanaTasks, asanaTaskToConversation,
                 ASANA_CUSTOM_FIELDS, customFieldsCache, enumOptions, putLog, delivered, asanaWebhookSecret, ticketStates,
                 ticketStatesCache>>

\* Promise.all([GET /stories/{gid}, getConversationIdFromTask(taskId)]) and
\* the checks on the story: only a comment with text is relayed, a comment
\* that starts with the Intercom tag is not, and a conversation must be known
StoryFetch(i) ==
  /\ At(i, "story_added", "fetch")
  /\ \E outcome \in {"ok", "rejected", "throws"}, taskOk \in BOOLEAN :
       LET r == reqs[i]
           story == asanaTasks[r.task].stories[r.event]
           result == getConversationIdFromTask(r.task, taskOk)
       IN
       IF outcome = "throws" THEN Respond(i, r, Fail)
       ELSE IF outcome = "rejected" THEN Respond(i, r, Ack)
       ELSE IF story.subtype # "comment_added" \/ Len(story.text) = 0
       THEN Respond(i, [r EXCEPT !.msg = r.event], Ack)
       ELSE IF StartsWith(story.text, TagIntercomNote)
       THEN Respond(i, [r EXCEPT !.msg = r.event], Ack)
       ELSE IF ~result.found \/ result.conversationId = NULL
       THEN Respond(i, [r EXCEPT !.msg = r.event], Ack)
       ELSE Goto(i, [r EXCEPT !.msg = r.event,
                              !.conv = result.conversationId,
                              !.text = cleanCommentText(story.text),
                              !.count = Count(story.text, "asset_url")],
                 "reply")
  /\ UNCHANGED <<tickets, notes, asanaTasks, asanaTaskToConversation,
                 ASANA_CUSTOM_FIELDS, customFieldsCache, enumOptions, putLog, delivered, asanaWebhookSecret, ticketStates,
                 ticketStatesCache>>

\* a reply that posts the comment's text without the provenance tag
StoryReply_Untagged(i) ==
  /\ At(i, "story_added", "reply")
  /\ \E outcome \in {"ok", "rejected", "throws"}, urls \in 0..reqs[i].count,
        app \in BOOLEAN :
       LET r == reqs[i]
           commentBody == <<"<b>", "Unknown", "</b>", "<br>">> \o r.text
       IN
       /\ IF outcome = "ok"
          THEN PostNote(r.conv, Note(commentBody, urls, app, r.kind, r.msg))
          ELSE UNCHANGED notes
       /\ Respond(i, [r EXCEPT !.posted = (outcome = "ok")],
                  IF outcome = "throws" THEN Fail ELSE Ack)
  /\ UNCHANGED <<tickets, asanaTasks, asanaTaskToConversation,
                 ASANA_CUSTOM_FIELDS, customFieldsCache, enumOptions, putLog, delivered, asanaWebhookSecret, ticketStates,
                 ticketStatesCache>>

\* the download URL of every asset that could be fetched, then one note with
\* the tagged text and those URLs: a fetch that throws ends in 500, a
\* rejected post is only logged
StoryReply(i) ==
  /\ At(i, "story_added", "reply")
  /\ \E outcome \in {"ok", "rejected", "throws"}, urls \in 0..reqs[i].count,
        app \in BOOLEAN :
       LET r == reqs[i]
           commentBody == <<"<b>", TagAsanaComment, "Unknown]", "</b>", "<br>">>
                            \o r.text
       IN
       /\ IF outcome = "ok"
          THEN PostNote(r.conv, Note(commentBody, urls, app, r.kind, r.msg))
          ELSE UNCHANGED notes
       /\ Respond(i, [r EXCEPT !.posted = (outcome = "ok")],
                  IF outcome = "throws" THEN Fail ELSE Ack)
  /\ UNCHANGED <<tickets, asanaTasks, asanaTaskToConversation,
                 ASANA_CUSTOM_FIELDS, customFieldsCache, enumOptions, putLog, delivered, asanaWebhookSecret, ticketStates,
                 ticketStatesCache>>

\* ------------------------------------------------------------ ticket states
\* A label or a status name is a string, held as its sequence of characters.
\* String.prototype.toLowerCase
toLowerCase(s) ==
  [k \in 1..Len(s) |-> IF s[k] = "A" THEN "a"
                       ELSE IF s[k] = "B" THEN "b" ELSE s[k]]

TicketTypes == {"K1", "K2"}

\* a state of GET /ticket_states
TicketState(id, internal, external, category, types) ==
  [id |-> id, internal_label |-> internal, external_label |-> external,
   category |-> category, ticket_types |-> types]

\* Array.prototype.find over the positions that satisfy its test: the first
\* of them, or 0
Find(hits) ==
  IF hits = {} THEN 0 ELSE CHOOSE k \in hits : \A h \in hits : k <= h

\* a resolver that tries the external label before the internal label
getTicketStateId_ExternalFirst(states, labelOrCategory, ticketTypeId) ==
  IF Len(states) = 0 THEN 0
  ELSE
    LET applicableStates ==
          IF ticketTypeId # NULL
          THEN SelectSeq(states, LAMBDA st : ticketTypeId \in st.ticket_types)
          ELSE states
        normalizedInput == Trim(toLowerCase(labelOrCategory))
        byInternal == Find({k \in 1..Len(applicableStates) :
          toLowerCase(applicableStates[k].internal_label) = normalizedInput})
        byExternal == Find({k \in 1..Len(applicableStates) :
          toLowerCase(applicableStates[k].external_label) = normalizedInput})
        byCategory == Find({k \in 1..Len(applicableStates) :
          toLowerCase(applicableStates[k].category) = normalizedInput})
    IN IF byExternal # 0 THEN applicableStates[byExternal].id
       ELSE IF byInternal # 0 THEN applicableStates[byInternal].id
       ELSE IF byCategory # 0 THEN applicableStates[byCategory].id
       ELSE 0

\* getTicketStateId(labelOrCategory, ticketTypeId) on the loaded states: the
\* id of the state found, 0 for null.  The states are filtered only when a
\* ticket type is given; the text is lower-cased and trimmed, a label is
\* lower-cased
getTicketStateId(states, labelOrCategory, ticketTypeId) ==
  IF Len(states) = 0 THEN 0
  ELSE
    LET applicableStates ==
          IF ticketTypeId # NULL
          THEN SelectSeq(states, LAMBDA st : ticketTypeId \in st.ticket_types)
          ELSE states
        normalizedInput == Trim(toLowerCase(labelOrCategory))
        byInternal == Find({k \in 1..Len(applicableStates) :
          toLowerCase(applicableStates[k].internal_label) = normalizedInput})
        byExternal == Find({k \in 1..Len(applicableStates) :
          toLowerCase(applicableStates[k].external_label) = normalizedInput})
        byCategory == Find({k \in 1..Len(applicableStates) :
          toLowerCase(applicableStates[k].category) = normalizedInput})
    IN IF byInternal # 0 THEN applicableStates[byInternal].id
       ELSE IF byExternal # 0 THEN applicableStates[byExternal].id
       ELSE IF byCategory # 0 THEN applicableStates[byCategory].id
       ELSE 0

\* fetchTicketStates(): the catalog, or [] when the fetch failed
fetchTicketStates(ok) == IF ok THEN ticketStates ELSE <<>>

\* initializeTicketStates(): the cache, filled by a fetch when it is null
initializeTicketStates(ok) ==
  IF ticketStatesCache.loaded THEN ticketStatesCache.states
  ELSE fetchTicketStates(ok)

\* the status names that do not close a ticket
whitelistStatus == {<<"A", "b">>}

\* ------------------------------------------------------------ status sync
\* the options of the 'Ticket Status' field a collaborator can choose
StatusNames == {<<"A", "b">>, <<"B", "a">>, <<"a">>, <<"b", "b">>}

\* the catalog of the workspace: state 1 belongs to ticket type K2 only,
\* state 2 to K1 only
Catalog ==
  <<TicketState(1, <<"b", "a">>, <<"B", "a">>, <<"b">>, {"K2"}),
    TicketState(2, <<"A", "b">>, <<"a", "b">>, <<"a">>, {"K1"})>>

\* a collaborator sets the 'Ticket Status' field of a task
SetTicketStatus(g, name) ==
  /\ asanaTasks[g].status # name
  /\ GidOf(ProjectSchema(asanaTasks[g].project), "Ticket Status") # NULL
  /\ asanaTasks' = [asanaTasks EXCEPT ![g].status = name]
  /\ UNCHANGED <<tickets, notes, asanaTaskToConversation, ASANA_CUSTOM_FIELDS, customFieldsCache, enumOptions,
                 reqs, putLog, delivered, asanaWebhookSecret, ticketStates, ticketStatesCache>>

\* event.change.field of the 'task changed' events Asana sends
ChangedFields == {"custom_fields", "name"}

\* req.headers['x-hook-secret']: absent, empty, or a secret
HookSecrets == {NULL, "", "s1", "s2"}

\* a webhook head that handles the events of a handshake request as well
ReceiveTaskChanged_EventsOfHandshake(g, field, hookSecret) ==
  /\ Len(reqs) < MaxReq
  /\ LET r == [Request("task_changed", NULL, NULL, {})
                 EXCEPT !.task = g, !.field = field, !.secret = hookSecret,
                        !.pc = "task"]
     IN IF hookSecret \notin {NULL, ""}
        THEN /\ asanaWebhookSecret' = hookSecret
             /\ reqs' = Append(reqs, [r EXCEPT !.echo = hookSecret])
        ELSE /\ reqs' = Append(reqs, r)
             /\ UNCHANGED asanaWebhookSecret
  /\ UNCHANGED <<tickets, notes, asanaTasks, asanaTaskToConversation,
                 ASANA_CUSTOM_FIELDS, customFieldsCache, enumOptions, putLog, delivered, ticketStates,
                 ticketStatesCache>>

\* a webhook head that takes up events only after a handshake has stored a
\* secret, and answers 500 to an event list that arrives before
ReceiveTaskChanged_AfterHandshakeOnly(g, field, hookSecret) ==
  /\ Len(reqs) < MaxReq
  /\ LET r == [Request("task_changed", NULL, NULL, {})
                 EXCEPT !.task = g, !.field = field, !.secret = hookSecret]
     IN IF hookSecret \notin {NULL, ""}
        THEN /\ asanaWebhookSecret' = hookSecret
             /\ reqs' = Append(reqs, [r EXCEPT !.pc = "done", !.resp = Ack,
                                               !.echo = hookSecret])
        ELSE /\ reqs' = Append(reqs,
                          IF asanaWebhookSecret = NULL
                          THEN [r EXCEPT !.pc = "done", !.resp = Fail]
                          ELSE [r EXCEPT !.pc = "task"])
             /\ UNCHANGED asanaWebhookSecret
  /\ UNCHANGED <<tickets, notes, asanaTasks, asanaTaskToConversation,
                 ASANA_CUSTOM_FIELDS, customFieldsCache, enumOptions, putLog, delivered, ticketStates,
                 ticketStatesCache>>

\* a request to /asana-webhook-prod whose body holds an event 'task changed',
\* up to the first await.  With a truthy x-hook-secret header the secret is
\* stored and echoed with 200 and the handler returns; otherwise the event is
\* taken up, isTicketStatusChange being computed from the field and not read
\* afterwards
ReceiveTaskChanged(g, field, hookSecret) ==
  /\ Len(reqs) < MaxReq
  /\ LET r == [Request("task_changed", NULL, NULL, {})
                 EXCEPT !.task = g, !.field = field, !.secret = hookSecret]
     IN IF hookSecret \notin {NULL, ""}
        THEN /\ asanaWebhookSecret' = hookSecret
             /\ reqs' = Append(reqs, [r EXCEPT !.pc = "done", !.resp = Ack,
                                               !.echo = hookSecret])
        ELSE /\ reqs' = Append(reqs, [r EXCEPT !.pc = "task"])
             /\ UNCHANGED asanaWebhookSecret
  /\ UNCHANGED <<tickets, notes, asanaTasks, asanaTaskToConversation,
                 ASANA_CUSTOM_FIELDS, customFieldsCache, enumOptions, putLog, delivered, ticketStates,
                 ticketStatesCache>>

\* ticketStatus: the value of the first custom field matching 'Ticket Status'
\* by gid or by name
TicketStatusOf(customFields) ==
  LET k == Find({j \in 1..Len(customFields) :
                   \/ customFields[j].gid = ASANA_CUSTOM_FIELDS.TICKET_STATUS
                   \/ customFields[j].name = "Ticket Status"})
  IN IF k = 0 THEN <<>> ELSE customFields[k].enum_value

\* getConversationIdFromTask(taskId) and the Ticket Status of its taskData
StatusTask(i) ==
  /\ At(i, "task_changed", "task")
  /\ \E ok \in BOOLEAN :
       LET result == getConversationIdFromTask(reqs[i].task, ok) IN
       IF ~result.found \/ result.conversationId = NULL
       THEN Respond(i, reqs[i], Ack)
       ELSE Goto(i, [reqs[i] EXCEPT !.conv = result.conversationId,
                                    !.text = TicketStatusOf(result.custom_fields)],
                 "conversation")
  /\ UNCHANGED <<tickets, notes, asanaTasks, asanaTaskToConversation,
                 ASANA_CUSTOM_FIELDS, customFieldsCache, enumOptions, putLog, delivered, asanaWebhookSecret, ticketStates,
                 ticketStatesCache>>

\* getConversation(conversationId): without a ticket id the event is skipped
StatusConversation(i) ==
  /\ At(i, "task_changed", "conversation")
  /\ \E ok \in BOOLEAN :
       IF ~ok \/ TicketOfConv(reqs[i].conv) = NULL
       THEN Respond(i, reqs[i], Ack)
       ELSE Goto(i, [reqs[i] EXCEPT !.ticket = TicketOfConv(reqs[i].conv)],
                 "ticket")
  /\ UNCHANGED <<tickets, notes, asanaTasks, asanaTaskToConversation,
                 ASANA_CUSTOM_FIELDS, customFieldsCache, enumOptions, putLog, delivered, asanaWebhookSecret, ticketStates,
                 ticketStatesCache>>

\* a close decision that does not look at the whitelist
StatusTicket_CloseWhateverTheStatus(i) ==
  /\ At(i, "task_changed", "ticket")
  /\ \E ok \in BOOLEAN :
       LET r == reqs[i]
           ticketTypeId == IF ok THEN tickets[r.ticket].type ELSE NULL
           isTicketOpen == ok /\ tickets[r.ticket].open
       IN
       IF Len(r.text) = 0
       THEN Respond(i, [r EXCEPT !.type = ticketTypeId], Ack)
       ELSE Goto(i, [r EXCEPT !.type = ticketTypeId, !.close = isTicketOpen],
                 "states")
  /\ UNCHANGED <<tickets, notes, asanaTasks, asanaTaskToConversation,
                 ASANA_CUSTOM_FIELDS, customFieldsCache, enumOptions, putLog, delivered, asanaWebhookSecret, ticketStates,
                 ticketStatesCache>>

\* getTicket(ticketId), which yields nothing when the fetch failed, then
\* ticketTypeId and shouldCloseTicket; without a ticketStatus nothing is synced
StatusTicket(i) ==
  /\ At(i, "task_changed", "ticket")
  /\ \E ok \in BOOLEAN :
       LET r == reqs[i]
           ticketTypeId == IF ok THEN tickets[r.ticket].type ELSE NULL
           isWhitelisted == r.text \in whitelistStatus
           isTicketOpen == ok /\ tickets[r.ticket].open
       IN
       IF Len(r.text) = 0
       THEN Respond(i, [r EXCEPT !.type = ticketTypeId], Ack)
       ELSE Goto(i, [r EXCEPT !.type = ticketTypeId,
                              !.close = ~isWhitelisted /\ isTicketOpen],
                 "states")
  /\ UNCHANGED <<tickets, notes, asanaTasks, asanaTaskToConversation,
                 ASANA_CUSTOM_FIELDS, customFieldsCache, enumOptions, putLog, delivered, asanaWebhookSecret, ticketStates,
                 ticketStatesCache>>

\* an updateTicketStateId that falls back to the first state of the catalog
StatusStates_FirstStateWhenNoMatch(i) ==
  /\ At(i, "task_changed", "states")
  /\ \E ok \in BOOLEAN :
       LET r == reqs[i]
           states == initializeTicketStates(ok)
           found == getTicketStateId(states, r.text, r.type)
           stateId == IF found = 0 /\ Len(states) > 0 THEN states[1].id ELSE found
       IN
       /\ ticketStatesCache' = [loaded |-> TRUE, states |-> states]
       /\ IF stateId = 0
          THEN Respond(i, r, Ack)
          ELSE Goto(i, [r EXCEPT !.stateId = stateId], "put")
  /\ UNCHANGED <<tickets, notes, asanaTasks, asanaTaskToConversation,
                 ASANA_CUSTOM_FIELDS, customFieldsCache, enumOptions, putLog, delivered, asanaWebhookSecret, ticketStates>>

\* updateTicketStateId, up to its PUT: getTicketStateId on the cached states;
\* without a state id it returns false and the delivery is acknowledged
StatusStates(i) ==
  /\ At(i, "task_changed", "states")
  /\ \E ok \in BOOLEAN :
       LET r == reqs[i]
           states == initializeTicketStates(ok)
           stateId == getTicketStateId(states, r.text, r.type)
       IN
       /\ ticketStatesCache' = [loaded |-> TRUE, states |-> states]
       /\ IF stateId = 0
          THEN Respond(i, r, Ack)
          ELSE Goto(i, [r EXCEPT !.stateId = stateId], "put")
  /\ UNCHANGED <<tickets, notes, asanaTasks, asanaTaskToConversation,
                 ASANA_CUSTOM_FIELDS, customFieldsCache, enumOptions, putLog, delivered, asanaWebhookSecret, ticketStates>>

\* a PUT that carries the state id and leaves the closing to a later write
StatusPut_StateOnly(i) ==
  /\ At(i, "task_changed", "put")
  /\ \E outcome \in {"ok", "rejected", "throws"} :
       LET r == reqs[i] IN
       /\ IF outcome = "ok"
          THEN tickets' = [tickets EXCEPT ![r.ticket].state = r.stateId]
          ELSE UNCHANGED tickets
       /\ Respond(i, [r EXCEPT !.posted = (outcome = "ok")], Ack)
  /\ UNCHANGED <<notes, asanaTasks, asanaTaskToConversation,
                 ASANA_CUSTOM_FIELDS, customFieldsCache, enumOptions, putLog, delivered, asanaWebhookSecret,
                 ticketStates, ticketStatesCache>>

\* PUT /tickets/{id} with ticket_state_id, and open: false when the ticket is
\* to be closed; a rejected or failed call returns false, nothing is thrown
StatusPut(i) ==
  /\ At(i, "task_changed", "put")
  /\ \E outcome \in {"ok", "rejected", "throws"} :
       LET r == reqs[i] IN
       /\ IF outcome = "ok"
          THEN tickets' = [tickets EXCEPT
                 ![r.ticket].state = r.stateId,
                 ![r.ticket].open = IF r.close THEN FALSE ELSE @]
          ELSE UNCHANGED tickets
       /\ Respond(i, [r EXCEPT !.posted = (outcome = "ok")], Ack)
  /\ UNCHANGED <<notes, asanaTasks, asanaTaskToConversation,
                 ASANA_CUSTOM_FIELDS, customFieldsCache, enumOptions, putLog, delivered, asanaWebhookSecret, ticketStates,
                 ticketStatesCache>>

\* ------------------------------------------------------------ specification
NewTicket(att, files) ==
  [link |-> 0, attachments |-> att, files |-> files,
   type |-> "K1",     \* ticket_type.id
   state |-> 0,       \* ticket_state.id, 0 for the state the ticket was made in
   open |-> TRUE]

\* the tickets at the start: unlinked, T1 with file attributes, T2 without
InitialTickets ==
  [t \in Tickets |->
     IF t = "T1" THEN NewTicket(<<>>, <<"http">>)
     ELSE NewTicket(<<>>, <<>>)]

Init ==
  /\ tickets = InitialTickets
  /\ notes = [c \in Conversations |-> <<>>]
  /\ asanaTasks = <<>>
  /\ asanaTaskToConversation = {}
  /\ ASANA_CUSTOM_FIELDS \in
       {[INTERCOM_CONVERSATION_ID |-> GidOf(ProjectSchema(p), "Intercom Conversation ID"),
         TICKET_STATUS |-> GidOf(ProjectSchema(p), "Ticket Status")] : p \in {ASANA_PROJECT}}
  /\ reqs = <<>>
  /\ putLog = <<>>
  /\ delivered = {}
  /\ ticketStates = <<>>
  /\ ticketStatesCache = NoCache
  /\ asanaWebhookSecret = NULL
  /\ enumOptions = InitialOptions
  /\ customFieldsCache = FieldsCache(ProjectSchema(ASANA_PROJECT))

Requests == 1..Len(reqs)

Next ==
  \/ \E c \in Conversations : ReceiveInitialize(c)
  \/ \E t \in Tickets, p \in Projects : ReceiveSubmit("submit_button", t, p)
  \/ \E t \in Tickets : ReceiveSubmit("sync_files_button", t, NULL)
  \/ \E i \in Requests : Initialize(i)
  \/ \E i \in Requests : CreateFetch(i)
  \/ \E i \in Requests : CreateFields(i)
  \/ \E i \in Requests : CreateTask(i)
  \/ \E i \in Requests : CreateLink(i)
  \/ \E i \in Requests : CreateStore(i)
  \/ \E i \in Requests : SyncFetch(i)
  \/ \E i \in Requests : SyncNote(i)
  \/ \E i \in Requests : SyncClear(i)

Spec == Init /\ [][Next]_vars

\* the relay of notes and comments, from a state in which a create-task
\* submit has linked T1 to task 1 of project P1 and a Sync Files submit has
\* moved the file of T1 to the task and left its note on the conversation
InitRelay ==
  /\ tickets = [InitialTickets EXCEPT !["T1"].link = 1, !["T1"].files = <<>>]
  /\ notes = [c \in Conversations |->
                IF c = "V1"
                THEN <<Note(<<TagFileSync, "\n", "\n", "text">>, 1, FALSE,
                            "sync_files", 0)>>
                ELSE <<>>]
  /\ asanaTasks = <<[NewTask([ticket |-> "T1", project |-> "P1",
                              convGid |-> "g_conv"]) EXCEPT !.files = 1]>>
  /\ asanaTaskToConversation = {<<1, "V1">>}
  /\ ASANA_CUSTOM_FIELDS =
       [INTERCOM_CONVERSATION_ID |-> GidOf(ProjectSchema("P1"), "Intercom Conversation ID"),
        TICKET_STATUS |-> GidOf(ProjectSchema("P1"), "Ticket Status")]
  /\ reqs = <<>>
  /\ putLog = << <<"T1", 1>> >>
  /\ delivered = {}
  /\ ticketStates = <<>>
  /\ ticketStatesCache = NoCache
  /\ asanaWebhookSecret = NULL
  /\ enumOptions = InitialOptions
  /\ customFieldsCache = FieldsCache(ProjectSchema(ASANA_PROJECT))

NextRelay ==
  \/ \E in \in NoteInputs : WriteNote(in)
  \/ \E g \in 1..Len(asanaTasks), in \in StoryInputs : WriteStory(g, in)
  \/ \E c \in Conversations, k \in 1..MaxNotes + MaxReq : ReceiveNoteCreated(c, k)
  \/ \E c \in Conversations, k \in 1..MaxNotes + MaxReq : ReceiveAdminNoted(c, k)
  \/ \E g \in 1..Len(asanaTasks), k \in 1..MaxNotes + MaxReq : ReceiveStoryAdded(g, k)
  \/ \E i \in Requests : NoteRelay(i)
  \/ \E i \in Requests : LegacyConversation(i)
  \/ \E i \in Requests : LegacyTicket(i)
  \/ \E i \in Requests : LegacyRelay(i)
  \/ \E i \in Requests : StoryFetch(i)
  \/ \E i \in Requests : StoryReply(i)

SpecRelay == InitRelay /\ [][NextRelay]_vars

\* the status sync, from a state in which a create-task submit has linked T1
\* to task 1 of project P1
InitStatus ==
  /\ tickets = [InitialTickets EXCEPT !["T1"].link = 1]
  /\ notes = [c \in Conversations |-> <<>>]
  /\ asanaTasks = <<NewTask([ticket |-> "T1", project |-> "P1",
                             convGid |-> "g_conv"])>>
  /\ asanaTaskToConversation = {<<1, "V1">>}
  /\ ASANA_CUSTOM_FIELDS =
       [INTERCOM_CONVERSATION_ID |-> GidOf(ProjectSchema("P1"), "Intercom Conversation ID"),
        TICKET_STATUS |-> GidOf(ProjectSchema("P1"), "Ticket Status")]
  /\ reqs = <<>>
  /\ putLog = << <<"T1", 1>> >>
  /\ delivered = {}
  /\ ticketStates = Catalog
  /\ ticketStatesCache = NoCache
  /\ asanaWebhookSecret = NULL
  /\ enumOptions = InitialOptions
  /\ customFieldsCache = FieldsCache(ProjectSchema(ASANA_PROJECT))

NextStatus ==
  \/ \E g \in 1..Len(asanaTasks), name \in StatusNames : SetTicketStatus(g, name)
  \/ \E g \in 1..Len(asanaTasks) : ReceiveTaskChanged(g, "custom_fields", NULL)
  \/ \E i \in Requests : StatusTask(i)
  \/ \E i \in Requests : StatusConversation(i)
  \/ \E i \in Requests : StatusTicket(i)
  \/ \E i \in Requests : StatusStates(i)
  \/ \E i \in Requests : StatusPut(i)

SpecStatus == InitStatus /\ [][NextStatus]_vars

\* one call uploadAttachmentToAsana(taskId, attachmentUrl) on its own, the
\* HTTP requests it makes meeting the outcome out
UploadCall(attachmentUrl, out) ==
  /\ Len(reqs) = 0
  /\ LET returned == uploadAttachmentToAsana(attachmentUrl, out) IN
       reqs' = Append(reqs,
         [Request("uploadAttachmentToAsana", NULL, NULL, {})
            EXCEPT !.pc = "done", !.urls = <<attachmentUrl>>,
                   !.outcome = out, !.value = returned.value,
                   !.calls = returned.calls])
  /\ UNCHANGED <<tickets, notes, asanaTasks, asanaTaskToConversation,
                 ASANA_CUSTOM_FIELDS, customFieldsCache, enumOptions, putLog>>
  /\ UNCHANGED webhookState

\* the calls of uploadAttachmentToAsana made on their own
UploadCalls == {i \in Requests : reqs[i].kind = "uploadAttachmentToAsana"}

RECURSIVE SeqsUpTo(_, _)
\* the sequences over S of length at most n
SeqsUpTo(S, n) ==
  IF n = 0 THEN {<<>>}
  ELSE LET shorter == SeqsUpTo(S, n - 1) IN
       shorter \cup {Append(q, x) : q \in shorter, x \in S}

\* the attribute values extractAttachmentUrls is called with
FieldValues ==
  {NoValue, FieldValue("number", <<>>, NULL)}
    \cup {FieldValue("list", items, NULL) :
            items \in SeqsUpTo([url : UrlKinds \cup {NULL}], MaxUrls)}
    \cup {FieldValue("object", <<>>, url) : url \in UrlKinds \cup {NULL}}
    \cup {FieldValue("string", <<>>, url) : url \in UrlKinds}

\* one call extractAttachmentUrls(fieldValue, fieldName) on its own
ExtractCall(fieldValue) ==
  /\ Len(reqs) = 0
  /\ reqs' = Append(reqs,
       [Request("extractAttachmentUrls", NULL, NULL, {})
          EXCEPT !.pc = "done", !.fieldValue = fieldValue,
                 !.urls = extractAttachmentUrls(fieldValue)])
  /\ UNCHANGED <<tickets, notes, asanaTasks, asanaTaskToConversation,
                 ASANA_CUSTOM_FIELDS, customFieldsCache, enumOptions, putLog>>
  /\ UNCHANGED webhookState

\* attachment relay: ticket T1 holds up to MaxUrls values in the file
\* attributes that create-task collects, and a run is one call of the
\* function on its own or one create-task submit
InitUpload ==
  /\ \E att \in SeqsUpTo(UrlKinds, MaxUrls) :
       tickets = [InitialTickets EXCEPT !["T1"].attachments = att]
  /\ notes = [c \in Conversations |-> <<>>]
  /\ asanaTasks = <<>>
  /\ asanaTaskToConversation = {}
  /\ ASANA_CUSTOM_FIELDS =
       [INTERCOM_CONVERSATION_ID |-> GidOf(ProjectSchema(ASANA_PROJECT), "Intercom Conversation ID"),
        TICKET_STATUS |-> GidOf(ProjectSchema(ASANA_PROJECT), "Ticket Status")]
  /\ reqs = <<>>
  /\ putLog = <<>>
  /\ delivered = {}
  /\ ticketStates = <<>>
  /\ ticketStatesCache = NoCache
  /\ asanaWebhookSecret = NULL
  /\ enumOptions = InitialOptions
  /\ customFieldsCache = FieldsCache(ProjectSchema(ASANA_PROJECT))

NextUpload ==
  \/ \E attachmentUrl \in UrlKinds, out \in UploadOutcomes :
       UploadCall(attachmentUrl, out)
  \/ \E fieldValue \in FieldValues : ExtractCall(fieldValue)
  \/ Len(reqs) = 0 /\ ReceiveSubmit("submit_button", "T1", ASANA_PROJECT)
  \/ \E i \in Requests : CreateFetch(i)
  \/ \E i \in Requests : CreateFields(i)
  \/ \E i \in Requests : CreateTask(i)
  \/ \E i \in Requests : CreateAttach(i)
  \/ \E i \in Requests : CreateLink(i)
  \/ \E i \in Requests : CreateStore(i)

SpecUpload == InitUpload /\ [][NextUpload]_vars

\* ------------------------------------------------------------ task lookup
\* the custom fields a task can carry: the field of the mapped gid or
\* another one, named 'Intercom Conversation ID' or not, with a conversation
\* id, an empty text or no value
FieldShapes ==
  [gid : {"g_conv", "g_other"},
   name : {"Intercom Conversation ID", "Other"},
   text_value : {NULL, "", "V1", "V2"},
   enum_value : {<<>>}]

\* one call getConversationIdFromTask(1) whose GET /tasks/1 fails or is
\* answered with the custom fields customFields
LookupConversation(customFields, ok) ==
  /\ Len(reqs) = 0
  /\ reqs' = Append(reqs,
       [Request("getConversationIdFromTask", NULL, NULL, {})
          EXCEPT !.pc = "done", !.task = 1, !.fetched = ok,
                 !.fields = IF ok THEN customFields ELSE <<>>,
                 !.conv = IF ok THEN ConversationIdIn(customFields, 1)
                          ELSE NULL])
  /\ UNCHANGED <<tickets, notes, asanaTasks, asanaTaskToConversation,
                 ASANA_CUSTOM_FIELDS, customFieldsCache, enumOptions, putLog>>
  /\ UNCHANGED webhookState

\* the process with the mapping of P1 (conversation-id field mapped) or of
\* P2 (not mapped), and with an
\* entry for task 1 in the in-memory map or none
InitLookup ==
  /\ tickets = InitialTickets
  /\ notes = [c \in Conversations |-> <<>>]
  /\ asanaTasks = <<>>
  /\ asanaTaskToConversation \in {{}, {<<1, "V1">>}, {<<1, "V2">>}}
  /\ \E p \in Projects :
       /\ ASANA_CUSTOM_FIELDS =
            [INTERCOM_CONVERSATION_ID |-> GidOf(ProjectSchema(p), "Intercom Conversation ID"),
             TICKET_STATUS |-> GidOf(ProjectSchema(p), "Ticket Status")]
       /\ customFieldsCache = FieldsCache(ProjectSchema(p))
  /\ reqs = <<>>
  /\ putLog = <<>>
  /\ delivered = {}
  /\ ticketStates = <<>>
  /\ ticketStatesCache = NoCache
  /\ asanaWebhookSecret = NULL
  /\ enumOptions = InitialOptions

NextLookup ==
  \E customFields \in SeqsUpTo(FieldShapes, MaxFields), ok \in BOOLEAN :
    LookupConversation(customFields, ok)

SpecLookup == InitLookup /\ [][NextLookup]_vars

\* ------------------------------------------------------------ enum options
\* the gid Asana gives the k-th option created in the field
OptionGids == <<"o1", "o2", "o3", "o4">>

\* the names an option of the field can carry
OptionNames == {"High", "Low"}

\* the option names a ticket attribute can hold: the name of an option, the
\* same in another letter case, and the same followed by a space
OptionLabels == {"High", "high", "High ", "Low"}

\* a getAsanaEnumOptionId that compares trimmed names without regard to case
getAsanaEnumOptionId_Folded(options, optionName, ok) ==
  LET Folded(name) == IF name \in {"High", "high", "High "} THEN "high" ELSE name
      hits == {k \in 1..Len(options) : Folded(options[k].name) = Folded(optionName)}
  IN IF ~ok \/ hits = {} THEN NULL
     ELSE options[CHOOSE k \in hits : \A h \in hits : k <= h].gid

\* getAsanaEnumOptionId(fieldGid, optionName) when GET /custom_fields/{gid}
\* is answered with the enum_options `options` (ok) or is not answered with
\* a 2xx or throws (~ok): the gid of the first option whose name === optionName
getAsanaEnumOptionId(options, optionName, ok) ==
  LET hits == {k \in 1..Len(options) : options[k].name = optionName}
  IN IF ~ok \/ hits = {} THEN NULL
     ELSE options[CHOOSE k \in hits : \A h \in hits : k <= h].gid

\* one call getAsanaEnumOptionId(fieldGid, optionName): the GET reads the
\* options the field has at that moment
EnumLookup(optionName, ok) ==
  /\ Len(reqs) < MaxReq
  /\ reqs' = Append(reqs,
       [Request("getAsanaEnumOptionId", NULL, NULL, {})
          EXCEPT !.pc = "done", !.raw = optionName, !.fetched = ok,
                 !.value = getAsanaEnumOptionId(enumOptions, optionName, ok)])
  /\ UNCHANGED <<tickets, notes, asanaTasks, asanaTaskToConversation,
                 ASANA_CUSTOM_FIELDS, customFieldsCache, enumOptions, putLog>>
  /\ UNCHANGED webhookState

\* Asana: somebody adds an option to the field
AddEnumOption(name) ==
  /\ Len(enumOptions) < MaxOptions
  /\ enumOptions' = Append(enumOptions,
       [gid |-> OptionGids[Len(enumOptions) + 1], name |-> name])
  /\ UNCHANGED <<tickets, notes, asanaTasks, asanaTaskToConversation,
                 ASANA_CUSTOM_FIELDS, customFieldsCache, putLog, reqs>>
  /\ UNCHANGED webhookState

\* Asana: somebody renames an option of the field
RenameEnumOption(k, name) ==
  /\ k \in 1..Len(enumOptions)
  /\ enumOptions[k].name # name
  /\ enumOptions' = [enumOptions EXCEPT ![k].name = name]
  /\ UNCHANGED <<tickets, notes, asanaTasks, asanaTaskToConversation,
                 ASANA_CUSTOM_FIELDS, customFieldsCache, putLog, reqs>>
  /\ UNCHANGED webhookState

\* the process after start, and a field whose options change while it runs
InitEnum ==
  /\ tickets = InitialTickets
  /\ notes = [c \in Conversations |-> <<>>]
  /\ asanaTasks = <<>>
  /\ asanaTaskToConversation = {}
  /\ ASANA_CUSTOM_FIELDS =
       [INTERCOM_CONVERSATION_ID |-> GidOf(ProjectSchema(ASANA_PROJECT), "Intercom Conversation ID"),
        TICKET_STATUS |-> GidOf(ProjectSchema(ASANA_PROJECT), "Ticket Status")]
  /\ customFieldsCache = FieldsCache(ProjectSchema(ASANA_PROJECT))
  /\ reqs = <<>>
  /\ putLog = <<>>
  /\ delivered = {}
  /\ ticketStates = <<>>
  /\ ticketStatesCache = NoCache
  /\ asanaWebhookSecret = NULL
  /\ enumOptions = InitialOptions

NextEnum ==
  \/ \E optionName \in OptionLabels, ok \in BOOLEAN : EnumLookup(optionName, ok)
  \/ \E name \in OptionNames : AddEnumOption(name)
  \/ \E k \in 1..MaxOptions, name \in OptionNames : RenameEnumOption(k, name)

SpecEnum == InitEnum /\ [][NextEnum]_vars

\* ------------------------------------------------------------ joined calls
\* The calls a handler passes to Promise.all are issued together and settle
\* one by one in any order; the handler goes on when all have settled, or at
\* once when one of them rejects.
Settled(i, call) == \E k \in 1..Len(reqs[i].order) : reqs[i].order[k] = call

Settle(i, r, call) ==
  reqs' = [reqs EXCEPT ![i] = [r EXCEPT !.order = Append(@, call)]]

\* a getTicket that lets a failed fetch reject the Promise.all
JoinTicket_FailFast(i) ==
  /\ At(i, "submit_button", "fetch")
  /\ ~Settled(i, "ticket")
  /\ \E ok \in BOOLEAN :
       LET tk == tickets[reqs[i].ticket] IN
       IF ok
       THEN Settle(i, [reqs[i] EXCEPT !.got.ticket =
                         [ok |-> TRUE, link |-> tk.link, urls |-> tk.attachments]],
                   "ticket")
       ELSE Respond(i, [reqs[i] EXCEPT !.order = Append(@, "ticket")],
                    Card("error", 0))
  /\ UNCHANGED <<tickets, notes, asanaTasks, asanaTaskToConversation,
                 ASANA_CUSTOM_FIELDS, customFieldsCache, enumOptions, putLog>>
  /\ UNCHANGED webhookState

\* getTicket(ticketId) settles: the ticket as it is then, or null
JoinTicket(i) ==
  /\ At(i, "submit_button", "fetch")
  /\ ~Settled(i, "ticket")
  /\ \E ok \in BOOLEAN :
       LET tk == tickets[reqs[i].ticket] IN
       Settle(i, [reqs[i] EXCEPT !.got.ticket =
                    IF ok THEN [ok |-> TRUE, link |-> tk.link, urls |-> tk.attachments]
                    ELSE NoJoin.ticket],
              "ticket")
  /\ UNCHANGED <<tickets, notes, asanaTasks, asanaTaskToConversation,
                 ASANA_CUSTOM_FIELDS, customFieldsCache, enumOptions, putLog>>
  /\ UNCHANGED webhookState

\* getAsanaCustomFields(selectedProjectId) settles: the settings, or null
JoinSchema(i) ==
  /\ At(i, "submit_button", "fetch")
  /\ ~Settled(i, "schema")
  /\ \E settings \in FetchedSettings(reqs[i].project) :
       Settle(i, [reqs[i] EXCEPT !.got.schema = settings], "schema")
  /\ UNCHANGED <<tickets, notes, asanaTasks, asanaTaskToConversation,
                 ASANA_CUSTOM_FIELDS, customFieldsCache, enumOptions, putLog>>
  /\ UNCHANGED webhookState

\* getContactName(contactId), or Promise.resolve(null) when the body names
\* the contact, settles
JoinContact(i) ==
  /\ At(i, "submit_button", "fetch")
  /\ ~Settled(i, "contact")
  /\ \E name \in {NULL, "Unknown Contact", "Ann"} :
       Settle(i, [reqs[i] EXCEPT !.got.contact = name], "contact")
  /\ UNCHANGED <<tickets, notes, asanaTasks, asanaTaskToConversation,
                 ASANA_CUSTOM_FIELDS, customFieldsCache, enumOptions, putLog>>
  /\ UNCHANGED webhookState

\* create-task after its Promise.all: initializeCustomFieldMappings, the
\* ticket check and the existing-task check, on what the three calls returned
CreateJoined(i) ==
  /\ At(i, "submit_button", "fetch")
  /\ Len(reqs[i].order) = 3
  /\ LET got == reqs[i].got
         existingTaskId == got.ticket.link
         r == [reqs[i] EXCEPT !.schemaFetch = TRUE]
     IN
     /\ initializeCustomFieldMappings(got.schema)
     /\ IF ~got.ticket.ok
        THEN Respond(i, r, Card("error", 0))
        ELSE IF existingTaskId # 0
        THEN Respond(i, [r EXCEPT !.seen = existingTaskId,
                                  !.task = existingTaskId],
                     Card("exists", existingTaskId))
        ELSE Goto(i, [r EXCEPT !.seen = existingTaskId,
                               !.urls = got.ticket.urls], "fields")
  /\ UNCHANGED <<tickets, notes, asanaTasks, asanaTaskToConversation, putLog,
                 enumOptions>>
  /\ UNCHANGED webhookState

\* GET /stories/{gid} settles: the story, null for a response that is not
\* ok, or a rejection, which rejects the Promise.all and ends in the 500
JoinStory(i) ==
  /\ At(i, "story_added", "fetch")
  /\ ~Settled(i, "story")
  /\ \E outcome \in {"ok", "rejected", "throws"} :
       LET r == reqs[i]
           story == asanaTasks[r.task].stories[r.event]
       IN
       IF outcome = "throws"
       THEN Respond(i, [r EXCEPT !.order = Append(@, "story"),
                                 !.got.story.outcome = outcome], Fail)
       ELSE Settle(i, [r EXCEPT !.got.story =
                         IF outcome = "ok"
                         THEN [outcome |-> outcome, subtype |-> story.subtype,
                               text |-> story.text]
                         ELSE [NoJoin.story EXCEPT !.outcome = outcome]],
                   "story")
  /\ UNCHANGED <<tickets, notes, asanaTasks, asanaTaskToConversation,
                 ASANA_CUSTOM_FIELDS, customFieldsCache, enumOptions, putLog,
                 delivered, asanaWebhookSecret, ticketStates, ticketStatesCache>>

\* getConversationIdFromTask(taskId) settles
JoinLookup(i) ==
  /\ At(i, "story_added", "fetch")
  /\ ~Settled(i, "conv")
  /\ \E taskOk \in BOOLEAN :
       LET result == getConversationIdFromTask(reqs[i].task, taskOk) IN
       Settle(i, [reqs[i] EXCEPT !.got.conv =
                    [found |-> result.found,
                     conversationId |-> result.conversationId]],
              "conv")
  /\ UNCHANGED <<tickets, notes, asanaTasks, asanaTaskToConversation,
                 ASANA_CUSTOM_FIELDS, customFieldsCache, enumOptions, putLog,
                 delivered, asanaWebhookSecret, ticketStates, ticketStatesCache>>

\* the comment relay after its Promise.all: the checks on the story and on
\* the conversation, on what the two calls returned
StoryJoined(i) ==
  /\ At(i, "story_added", "fetch")
  /\ Len(reqs[i].order) = 2
  /\ LET r == reqs[i]
         story == r.got.story
         result == r.got.conv
     IN
     IF story.outcome = "rejected" THEN Respond(i, r, Ack)
     ELSE IF story.subtype # "comment_added" \/ Len(story.text) = 0
     THEN Respond(i, [r EXCEPT !.msg = r.event], Ack)
     ELSE IF StartsWith(story.text, TagIntercomNote)
     THEN Respond(i, [r EXCEPT !.msg = r.event], Ack)
     ELSE IF ~result.found \/ result.conversationId = NULL
     THEN Respond(i, [r EXCEPT !.msg = r.event], Ack)
     ELSE Goto(i, [r EXCEPT !.msg = r.event,
                            !.conv = result.conversationId,
                            !.text = cleanCommentText(story.text),
                            !.count = Count(story.text, "asset_url")],
               "reply")
  /\ UNCHANGED <<tickets, notes, asanaTasks, asanaTaskToConversation,
                 ASANA_CUSTOM_FIELDS, customFieldsCache, enumOptions, putLog,
                 delivered, asanaWebhookSecret, ticketStates, ticketStatesCache>>

\* T1 is linked to task 1 of project P1, which holds one story, and T2 is
\* unlinked; a run is one create-task submit or one story-added event
InitJoin ==
  /\ \E att \in {<<>>, <<"http">>} :
       tickets = [InitialTickets EXCEPT !["T1"].link = 1, !["T1"].files = <<>>,
                                        !["T2"].attachments = att]
  /\ notes = [c \in Conversations |-> <<>>]
  /\ \E in \in StoryInputs :
       asanaTasks = <<[NewTask([ticket |-> "T1", project |-> "P1",
                                convGid |-> "g_conv"])
                         EXCEPT !.stories =
                           <<Story(in[1], in[2], in[3],
                                   IF in[3] THEN "app" ELSE "user", 0)>>]>>
  /\ asanaTaskToConversation \in {{}, {<<1, "V1">>}}
  /\ ASANA_CUSTOM_FIELDS =
       [INTERCOM_CONVERSATION_ID |-> GidOf(ProjectSchema(ASANA_PROJECT), "Intercom Conversation ID"),
        TICKET_STATUS |-> GidOf(ProjectSchema(ASANA_PROJECT), "Ticket Status")]
  /\ customFieldsCache = FieldsCache(ProjectSchema(ASANA_PROJECT))
  /\ reqs = <<>>
  /\ putLog = << <<"T1", 1>> >>
  /\ delivered = {}
  /\ ticketStates = <<>>
  /\ ticketStatesCache = NoCache
  /\ asanaWebhookSecret = NULL
  /\ enumOptions = InitialOptions

NextJoin ==
  \/ \E t \in Tickets, p \in Projects :
       Len(reqs) = 0 /\ ReceiveSubmit("submit_button", t, p)
  \/ Len(reqs) = 0 /\ ReceiveStoryAdded(1, 1)
  \/ \E i \in Requests : JoinTicket(i)
  \/ \E i \in Requests : JoinSchema(i)
  \/ \E i \in Requests : JoinContact(i)
  \/ \E i \in Requests : CreateJoined(i)
  \/ \E i \in Requests : CreateFields(i)
  \/ \E i \in Requests : CreateTask(i)
  \/ \E i \in Requests : CreateAttach(i)
  \/ \E i \in Requests : CreateLink(i)
  \/ \E i \in Requests : CreateStore(i)
  \/ \E i \in Requests : JoinStory(i)
  \/ \E i \in Requests : JoinLookup(i)
  \/ \E i \in Requests : StoryJoined(i)
  \/ \E i \in Requests : StoryReply(i)

SpecJoin == InitJoin /\ [][NextJoin]_vars

\* ------------------------------------------------------------ retried create
\* create-task submits for a conversation with a ticket or without one,
\* each sent after the one before has been answered
NextRetry ==
  \/ \E t \in Tickets \cup {NULL}, p \in Projects :
       /\ \A i \in Requests : reqs[i].pc = "done"
       /\ ReceiveSubmit("submit_button", t, p)
  \/ \E i \in Requests : CreateFetch(i)
  \/ \E i \in Requests : CreateFields(i)
  \/ \E i \in Requests : CreateTask(i)
  \/ \E i \in Requests : CreateLink(i)
  \/ \E i \in Requests : CreateStore(i)

SpecRetry == Init /\ [][NextRetry]_vars

\* ------------------------------------------------------------ state cache
\* what a caller of initializeTicketStates does with the states it returns:
\* the start of the process nothing, updateTicketStateId its getTicketStateId
WithStates(i, r, states) ==
  IF r.kind = "startup" THEN Goto(i, r, "done")
  ELSE LET stateId == getTicketStateId(states, r.text, r.type) IN
       IF stateId = 0 THEN Respond(i, r, Ack)
       ELSE Goto(i, [r EXCEPT !.stateId = stateId], "put")

\* initializeTicketStates() up to its await: `if (!ticketStatesCache)` is
\* false for any array, the empty one included, and the cache is returned;
\* with null the fetch is issued and awaited
StatesAwait(i) ==
  /\ i \in Requests
  /\ reqs[i].pc = "states"
  /\ IF ticketStatesCache.loaded
     THEN WithStates(i, reqs[i], ticketStatesCache.states)
     ELSE Goto(i, reqs[i], "statesFetch")
  /\ UNCHANGED <<tickets, notes, asanaTasks, asanaTaskToConversation,
                 ASANA_CUSTOM_FIELDS, customFieldsCache, enumOptions, putLog,
                 delivered, asanaWebhookSecret, ticketStates, ticketStatesCache>>

\* ticketStatesCache = await fetchTicketStates(): the fetch settles and its
\* result, [] for a failed fetch, is assigned whatever the cache holds by then
StatesStored(i) ==
  /\ i \in Requests
  /\ reqs[i].pc = "statesFetch"
  /\ \E ok \in BOOLEAN :
       LET states == fetchTicketStates(ok) IN
       /\ ticketStatesCache' = [loaded |-> TRUE, states |-> states]
       /\ WithStates(i, reqs[i], states)
  /\ UNCHANGED <<tickets, notes, asanaTasks, asanaTaskToConversation,
                 ASANA_CUSTOM_FIELDS, customFieldsCache, enumOptions, putLog,
                 delivered, asanaWebhookSecret, ticketStates>>

\* the process has just started: the listen callback is about to call
\* initializeTicketStates while the server already takes requests
InitCache ==
  /\ tickets = [InitialTickets EXCEPT !["T1"].link = 1]
  /\ notes = [c \in Conversations |-> <<>>]
  /\ asanaTasks = <<NewTask([ticket |-> "T1", project |-> "P1",
                             convGid |-> "g_conv"])>>
  /\ asanaTaskToConversation = {}
  /\ ASANA_CUSTOM_FIELDS =
       [INTERCOM_CONVERSATION_ID |-> GidOf(ProjectSchema("P1"), "Intercom Conversation ID"),
        TICKET_STATUS |-> GidOf(ProjectSchema("P1"), "Ticket Status")]
  /\ customFieldsCache = FieldsCache(ProjectSchema(ASANA_PROJECT))
  /\ reqs = <<[Request("startup", NULL, NULL, {}) EXCEPT !.pc = "states"]>>
  /\ putLog = << <<"T1", 1>> >>
  /\ delivered = {}
  /\ ticketStates = Catalog
  /\ ticketStatesCache = NoCache
  /\ asanaWebhookSecret = NULL
  /\ enumOptions = InitialOptions

NextCache ==
  \/ \E g \in 1..Len(asanaTasks), name \in StatusNames : SetTicketStatus(g, name)
  \/ \E g \in 1..Len(asanaTasks) : ReceiveTaskChanged(g, "custom_fields", NULL)
  \/ \E i \in Requests : StatusTask(i)
  \/ \E i \in Requests : StatusConversation(i)
  \/ \E i \in Requests : StatusTicket(i)
  \/ \E i \in Requests : StatesAwait(i)
  \/ \E i \in Requests : StatesStored(i)
  \/ \E i \in Requests : StatusPut(i)

SpecCache == InitCache /\ [][NextCache]_vars

\* ------------------------------------------------------------ answers
\* one request to any of the four routes, from a state in which T1 is linked
\* to task 1, which has a 'Ticket Status' and a story, V1 has a note, and T2
\* is not linked
InitAnswer ==
  /\ \E att \in {<<>>, <<"http">>} :
       tickets = [InitialTickets EXCEPT !["T1"].link = 1,
                                        !["T2"].attachments = att]
  /\ \E in \in NoteInputs :
       notes = [c \in Conversations |->
                  IF c = in[1]
                  THEN <<Note(in[2], in[3], in[4],
                              IF in[4] THEN "app" ELSE "user", 0)>>
                  ELSE <<>>]
  /\ \E in \in StoryInputs, name \in {<<"A", "b">>, <<"b", "b">>} :
       asanaTasks = <<[NewTask([ticket |-> "T1", project |-> "P1",
                                convGid |-> "g_conv"])
                         EXCEPT !.status = name,
                                !.stories =
                                  <<Story(in[1], in[2], in[3],
                                          IF in[3] THEN "app" ELSE "user", 0)>>]>>
  /\ asanaTaskToConversation = {<<1, "V1">>}
  /\ ASANA_CUSTOM_FIELDS =
       [INTERCOM_CONVERSATION_ID |-> GidOf(ProjectSchema("P1"), "Intercom Conversation ID"),
        TICKET_STATUS |-> GidOf(ProjectSchema("P1"), "Ticket Status")]
  /\ customFieldsCache = FieldsCache(ProjectSchema(ASANA_PROJECT))
  /\ reqs = <<>>
  /\ putLog = << <<"T1", 1>> >>
  /\ delivered = {}
  /\ ticketStates = Catalog
  /\ ticketStatesCache = NoCache
  /\ asanaWebhookSecret = NULL
  /\ enumOptions = InitialOptions

NextAnswer ==
  \/ \E c \in Conversations \cup {NULL} : Len(reqs) = 0 /\ ReceiveInitialize(c)
  \/ \E t \in Tickets \cup {NULL}, p \in Projects :
       Len(reqs) = 0 /\ ReceiveSubmit("submit_button", t, p)
  \/ \E t \in Tickets \cup {NULL} :
       Len(reqs) = 0 /\ ReceiveSubmit("sync_files_button", t, NULL)
  \/ \E t \in Tickets \cup {NULL} :
       Len(reqs) = 0 /\ ReceiveSubmit("project_dropdown", t, NULL)
  \/ \E c \in Conversations : Len(reqs) = 0 /\ ReceiveNoteCreated(c, 1)
  \/ \E c \in Conversations : Len(reqs) = 0 /\ ReceiveAdminNoted(c, 1)
  \/ Len(reqs) = 0 /\ ReceiveStoryAdded(1, 1)
  \/ \E field \in ChangedFields, hookSecret \in HookSecrets :
       Len(reqs) = 0 /\ ReceiveTaskChanged(1, field, hookSecret)
  \/ \E i \in Requests : Initialize(i)
  \/ \E i \in Requests : CreateFetch(i)
  \/ \E i \in Requests : CreateFields(i)
  \/ \E i \in Requests : CreateTask(i)
  \/ \E i \in Requests : CreateAttach(i)
  \/ \E i \in Requests : CreateLink(i)
  \/ \E i \in Requests : CreateStore(i)
  \/ \E i \in Requests : SyncFetch(i)
  \/ \E i \in Requests : SyncNote(i)
  \/ \E i \in Requests : SyncClear(i)
  \/ \E i \in Requests : NoteRelay(i)
  \/ \E i \in Requests : LegacyConversation(i)
  \/ \E i \in Requests : LegacyTicket(i)
  \/ \E i \in Requests : LegacyRelay(i)
  \/ \E i \in Requests : StoryFetch(i)
  \/ \E i \in Requests : StoryReply(i)
  \/ \E i \in Requests : StatusTask(i)
  \/ \E i \in Requests : StatusConversation(i)
  \/ \E i \in Requests : StatusTicket(i)
  \/ \E i \in Requests : StatusStates(i)
  \/ \E i \in Requests : StatusPut(i)

\* a step of a handler after one of its awaits: the outbound call it waited
\* for has returned or failed
HandlerStep == Len(reqs) > 0 /\ NextAnswer

\* every outbound call eventually returns or fails: a handler that can take
\* a step eventually takes one
SpecAnswer == InitAnswer /\ [][NextAnswer]_vars /\ WF_vars(HandlerStep)

\* ------------------------------------------------------------ dates
\* the offset of the time zone 'Asia/Dhaka' from UTC in seconds, as it has
\* been since 2010
AsiaDhaka == 21600

\* the white space Intl.DateTimeFormat puts before AM/PM: a space, or with a
\* newer ICU the narrow no-break space U+202F
DayPeriodSpaces == {" ", "U+202F"}

\* the calendar date of a day number counted from 1970-01-01
CivilFromDays(days) ==
  LET z == days + 719468
      era == z \div 146097
      doe == z - era * 146097
      yoe == (doe - doe \div 1460 + doe \div 36524 - doe \div 146096) \div 365
      doy == doe - (365 * yoe + yoe \div 4 - yoe \div 100)
      mp == (5 * doy + 2) \div 153
      m == IF mp < 10 THEN mp + 3 ELSE mp - 9
  IN [year |-> yoe + era * 400 + (IF m <= 2 THEN 1 ELSE 0),
      month |-> m,
      day |-> doy - (153 * mp + 2) \div 5 + 1]

\* Intl.DateTimeFormat('en-US', {year: 'numeric', month: 'numeric',
\* day: 'numeric', hour: 'numeric', minute: '2-digit', hour12: true}) of an
\* instant, in the zone with the given offset: the text M/D/YYYY, h:mm AM
\* as its sequence of parts, the minute as its two digits
FormatEnUS(seconds, offset, sep) ==
  LET local == seconds + offset
      date == CivilFromDays(local \div 86400)
      hour == (local % 86400) \div 3600
      minute == (local % 3600) \div 60
  IN <<date.month, "/", date.day, "/", date.year, ",", " ",
       IF hour % 12 = 0 THEN 12 ELSE hour % 12, ":",
       minute \div 10, minute % 10, sep,
       IF hour < 12 THEN "AM" ELSE "PM">>

\* a formatDateForAsana that formats in the server's own time zone
formatDateForAsana_ServerZone(dateValue, serverZone, sep) ==
  IF dateValue = 0 THEN <<>>
  ELSE FormatEnUS(dateValue, serverZone * 3600, sep)

\* formatDateForAsana(dateValue) for a number of unix seconds, on a server
\* in the zone serverZone whose ICU uses the space sep: null for a falsy
\* value, else the instant formatted with timeZone 'Asia/Dhaka'
formatDateForAsana(dateValue, serverZone, sep) ==
  IF dateValue = 0 THEN <<>>
  ELSE FormatEnUS(dateValue, AsiaDhaka, sep)

\* the unix seconds the function is called with: none, the instant of the
\* contract, the ends of a year, a leap day and the day after February
Timestamps ==
  {0, 1700000000, 1703959200, 1704045599, 1704045600, 1709186400,
   1709229840, 1677607200}

\* the UTC offsets, in hours, of the zones a server may run in
ServerZones == {-2, 0, 6}

\* one call formatDateForAsana(dateValue)
FormatDate(dateValue, serverZone, sep) ==
  /\ Len(reqs) < MaxReq
  /\ reqs' = Append(reqs,
       [Request("formatDateForAsana", NULL, NULL, {})
          EXCEPT !.pc = "done", !.date = dateValue, !.zone = serverZone,
                 !.formatted = formatDateForAsana(dateValue, serverZone, sep)])
  /\ UNCHANGED <<tickets, notes, asanaTasks, asanaTaskToConversation,
                 ASANA_CUSTOM_FIELDS, customFieldsCache, enumOptions, putLog>>
  /\ UNCHANGED webhookState

\* the values a ticket attribute on a date path can hold: a number of unix
\* seconds (as a number or a numeric string), a string with a date and a UTC
\* time that Date parses, a string that Date cannot parse
DateValues ==
  {[kind |-> "number", seconds |-> 0, raw |-> "0"],
   [kind |-> "number", seconds |-> 1700000000, raw |-> "1700000000"],
   [kind |-> "number", seconds |-> 1704045599, raw |-> "1704045599"],
   [kind |-> "number", seconds |-> 1704045600, raw |-> "1704045600"],
   [kind |-> "number", seconds |-> 1709186400, raw |-> "1709186400"],
   [kind |-> "iso", seconds |-> 1700000000, raw |-> "2023-11-14T22:13:20Z"],
   [kind |-> "iso", seconds |-> 1709229840, raw |-> "2024-02-29T18:04:00Z"],
   [kind |-> "text", seconds |-> 0, raw |-> "tomorrow"]}

\* the date a date function works with is valid: a falsy value returns null
\* at once, and a string Date cannot parse gives an invalid date
IsDate(value) ==
  /\ value.kind # "text"
  /\ ~(value.kind = "number" /\ value.seconds = 0)

\* formatDateForAsana(dateValue) for a value of any of these kinds
formatDateForAsanaOf(value, serverZone, sep) ==
  IF ~IsDate(value) THEN <<>>
  ELSE IF value.kind = "number"
  THEN formatDateForAsana(value.seconds, serverZone, sep)
  ELSE FormatEnUS(value.seconds, AsiaDhaka, sep)

\* a date-text branch that leaves the field out when the value is no date
DateTextEntry_SkipUnparsed(value, serverZone, sep) ==
  LET formattedDate == formatDateForAsanaOf(value, serverZone, sep) IN
  IF formattedDate # <<>> THEN Entry("formatted", formattedDate) ELSE NoEntry

\* the branch of the create-task field loop for a field that is neither enum
\* nor date and whose name contains 'date' or 'time': the formatted date,
\* and String(intercomValue) when formatDateForAsana returned null
DateTextEntry(value, serverZone, sep) ==
  LET formattedDate == formatDateForAsanaOf(value, serverZone, sep) IN
  IF formattedDate # <<>> THEN Entry("formatted", formattedDate)
  ELSE Entry("text", <<value.raw>>)

\* one round of the create-task field loop on the date-text branch
MapDateText(value, serverZone, sep) ==
  /\ Len(reqs) = 0
  /\ reqs' = Append(reqs,
       [Request("dateText", NULL, NULL, {})
          EXCEPT !.pc = "done", !.date = value.seconds, !.zone = serverZone,
                 !.type = value.kind, !.raw = value.raw,
                 !.formatted = formatDateForAsanaOf(value, serverZone, sep),
                 !.payload = DateTextEntry(value, serverZone, sep)])
  /\ UNCHANGED <<tickets, notes, asanaTasks, asanaTaskToConversation,
                 ASANA_CUSTOM_FIELDS, customFieldsCache, enumOptions, putLog>>
  /\ UNCHANGED webhookState

\* formatDateForAsanaDateField(dateValue): year, month and day as
\* getFullYear, getMonth and getDate give them, that is in the server's time
\* zone, as the text YYYY-MM-DD with its digits; <<>> for null
formatDateForAsanaDateField(value, serverZone) ==
  IF ~IsDate(value) THEN <<>>
  ELSE LET date == CivilFromDays((value.seconds + serverZone * 3600) \div 86400)
       IN <<date.year, "-", date.month \div 10, date.month % 10, "-",
            date.day \div 10, date.day % 10>>

\* one call formatDateForAsanaDateField(dateValue)
FormatDateField(value, serverZone) ==
  /\ Len(reqs) = 0
  /\ reqs' = Append(reqs,
       [Request("formatDateForAsanaDateField", NULL, NULL, {})
          EXCEPT !.pc = "done", !.date = value.seconds, !.zone = serverZone,
                 !.type = value.kind, !.raw = value.raw,
                 !.formatted = formatDateForAsanaDateField(value, serverZone)])
  /\ UNCHANGED <<tickets, notes, asanaTasks, asanaTaskToConversation,
                 ASANA_CUSTOM_FIELDS, customFieldsCache, enumOptions, putLog>>
  /\ UNCHANGED webhookState

InitDates ==
  /\ tickets = InitialTickets
  /\ notes = [c \in Conversations |-> <<>>]
  /\ asanaTasks = <<>>
  /\ asanaTaskToConversation = {}
  /\ ASANA_CUSTOM_FIELDS =
       [INTERCOM_CONVERSATION_ID |-> GidOf(ProjectSchema(ASANA_PROJECT), "Intercom Conversation ID"),
        TICKET_STATUS |-> GidOf(ProjectSchema(ASANA_PROJECT), "Ticket Status")]
  /\ reqs = <<>>
  /\ putLog = <<>>
  /\ delivered = {}
  /\ ticketStates = <<>>
  /\ ticketStatesCache = NoCache
  /\ asanaWebhookSecret = NULL
  /\ enumOptions = InitialOptions
  /\ customFieldsCache = FieldsCache(ProjectSchema(ASANA_PROJECT))

NextDates ==
  \/ \E dateValue \in Timestamps, serverZone \in ServerZones,
        sep \in DayPeriodSpaces : FormatDate(dateValue, serverZone, sep)
  \/ \E value \in DateValues, serverZone \in ServerZones,
        sep \in DayPeriodSpaces : MapDateText(value, serverZone, sep)
  \/ \E value \in DateValues, serverZone \in ServerZones :
        FormatDateField(value, serverZone)

SpecDates == InitDates /\ [][NextDates]_vars

\* the deliveries to /asana-webhook-prod, handshakes and events for any
\* field, from a state in which T1 is linked to task 1 and the task has a
\* 'Ticket Status'
InitEvents ==
  /\ tickets = [InitialTickets EXCEPT !["T1"].link = 1]
  /\ notes = [c \in Conversations |-> <<>>]
  /\ \E name \in StatusNames :
       asanaTasks = <<[NewTask([ticket |-> "T1", project |-> "P1",
                                convGid |-> "g_conv"]) EXCEPT !.status = name]>>
  /\ asanaTaskToConversation = {<<1, "V1">>}
  /\ ASANA_CUSTOM_FIELDS =
       [INTERCOM_CONVERSATION_ID |-> GidOf(ProjectSchema("P1"), "Intercom Conversation ID"),
        TICKET_STATUS |-> GidOf(ProjectSchema("P1"), "Ticket Status")]
  /\ reqs = <<>>
  /\ putLog = << <<"T1", 1>> >>
  /\ delivered = {}
  /\ ticketStates = Catalog
  /\ ticketStatesCache = NoCache
  /\ asanaWebhookSecret = NULL
  /\ enumOptions = InitialOptions
  /\ customFieldsCache = FieldsCache(ProjectSchema(ASANA_PROJECT))

NextEvents ==
  \/ \E g \in 1..Len(asanaTasks), field \in ChangedFields,
        hookSecret \in HookSecrets : ReceiveTaskChanged(g, field, hookSecret)
  \/ \E i \in Requests : StatusTask(i)
  \/ \E i \in Requests : StatusConversation(i)
  \/ \E i \in Requests : StatusTicket(i)
  \/ \E i \in Requests : StatusStates(i)
  \/ \E i \in Requests : StatusPut(i)

SpecEvents == InitEvents /\ [][NextEvents]_vars

\* getTicketStateId on its own: the labels a state of the catalog may carry,
\* with upper case and with white space around them
StateShapes ==
  [internal_label : {<<"a">>, <<"B">>, <<" ", "a">>},
   external_label : {<<"a">>, <<"b">>},
   category : {<<"a">>, <<"c">>},
   ticket_types : {{"K1"}, {"K2"}}]

\* the catalogs of MaxStates states, the id of a state being its position
Catalogs ==
  {[k \in 1..MaxStates |->
      TicketState(k, f[k].internal_label, f[k].external_label,
                  f[k].category, f[k].ticket_types)] :
     f \in [1..MaxStates -> StateShapes]}

\* the texts getTicketStateId is called with
StatusTexts == {<<"A">>, <<" ", "a", " ">>, <<"b">>, <<"c">>}

\* one call getTicketStateId(labelOrCategory, ticketTypeId)
ResolveState(labelOrCategory, ticketTypeId) ==
  /\ Len(reqs) = 0
  /\ \E ok \in BOOLEAN :
       LET states == initializeTicketStates(ok) IN
       /\ ticketStatesCache' = [loaded |-> TRUE, states |-> states]
       /\ reqs' = Append(reqs,
            [Request("getTicketStateId", NULL, NULL, {})
               EXCEPT !.pc = "done", !.text = labelOrCategory,
                      !.type = ticketTypeId,
                      !.stateId = getTicketStateId(states, labelOrCategory,
                                                   ticketTypeId)])
  /\ UNCHANGED <<tickets, notes, asanaTasks, asanaTaskToConversation,
                 ASANA_CUSTOM_FIELDS, customFieldsCache, enumOptions, putLog, delivered, asanaWebhookSecret, ticketStates>>

InitStates ==
  /\ tickets = InitialTickets
  /\ notes = [c \in Conversations |-> <<>>]
  /\ asanaTasks = <<>>
  /\ asanaTaskToConversation = {}
  /\ ASANA_CUSTOM_FIELDS =
       [INTERCOM_CONVERSATION_ID |-> GidOf(ProjectSchema(ASANA_PROJECT), "Intercom Conversation ID"),
        TICKET_STATUS |-> GidOf(ProjectSchema(ASANA_PROJECT), "Ticket Status")]
  /\ reqs = <<>>
  /\ putLog = <<>>
  /\ delivered = {}
  /\ ticketStates \in Catalogs
  /\ ticketStatesCache = NoCache
  /\ asanaWebhookSecret = NULL
  /\ enumOptions = InitialOptions
  /\ customFieldsCache = FieldsCache(ProjectSchema(ASANA_PROJECT))

NextStates ==
  \E text \in StatusTexts, type \in {"K1", NULL} : ResolveState(text, type)

SpecStates == InitStates /\ [][NextStates]_vars

\* ------------------------------------------------------------ the link
\* the create-task submits
Creates == {i \in Requests : reqs[i].kind = "submit_button"}

\* the submits that got a task created by POST /tasks
Creators == {i \in Creates : reqs[i].pc \in {"attach", "link", "store"}
                              \/ reqs[i].resp.card = "created"}

\* the tasks the integration has created for ticket t
TasksFor(t) == {k \in 1..Len(asanaTasks) : asanaTasks[k].ticket = t}

\* submit j arrived after submit i had been answered
OneAfterTheOther(i, j) ==
  /\ i \in Creates /\ j \in Creates
  /\ reqs[i].ticket = reqs[j].ticket
  /\ i \in reqs[j].after
  /\ reqs[j].pc = "done"

\* C1: for a ticket that starts unlinked, two create-task submits executed one
\* after the other create exactly one task, the one of the first submit, and
\* the second submit answers with the 'already exists' card carrying its id.
C1_SecondCreateFindsTheFirst ==
  \A i \in Requests : \A j \in Requests :
    (OneAfterTheOther(i, j) /\ reqs[i].resp.card = "created"
       /\ Cardinality(Creates) = 2)
      => /\ TasksFor(reqs[i].ticket) = {reqs[i].task}
         /\ reqs[j].resp.card \in {"exists", "error"}
         /\ reqs[j].resp.card = "exists" => reqs[j].resp.task = reqs[i].task

\* C2 as stated: no ticket ever has more than one task created for it.
C2_AtMostOneTaskPerTicket ==
  \A t \in Tickets : Cardinality(TasksFor(t)) <= 1

\* C2 as amended: a task is created for a ticket only by a create-task submit
\* whose own fetch of the ticket found no linked task, so a ticket has at most
\* as many tasks as submits that read it unlinked, and a submit that read a
\* linked ticket creates none.
C2_TaskOnlyWhenReadUnlinked ==
  /\ \A i \in Creates : reqs[i].seen > 0 => i \notin Creators /\ reqs[i].pc = "done"
  /\ \A t \in Tickets :
       /\ \A k \in TasksFor(t) :
            \E i \in Creators : reqs[i].task = k /\ reqs[i].ticket = t
                                 /\ reqs[i].seen = 0
       /\ Cardinality(TasksFor(t)) <=
            Cardinality({i \in Creates : reqs[i].ticket = t /\ reqs[i].seen = 0})

\* a submit that read a linked ticket has answered 'already exists' and the
\* ticket has the one task
C2_Witness ==
  \E i \in Creates :
    /\ reqs[i].resp.card = "exists"
    /\ TasksFor(reqs[i].ticket) = {reqs[i].resp.task}

\* the link writes Intercom accepted for ticket t, oldest first
WritesFor(t) == SelectSeq(putLog, LAMBDA e : e[1] = t)

Wrote(i) == \E k \in 1..Len(putLog) : putLog[k] = <<reqs[i].ticket, reqs[i].task>>

\* C3: the link check is a check-then-act without a lock: when two create-task
\* submits for one unlinked ticket both read it before either writes the link,
\* both create a task, and the attribute ends up holding the id written last.
C3_BothCreateLastWriteWins ==
  \A i \in Creators : \A j \in Creators :
    (i # j /\ reqs[i].ticket = reqs[j].ticket /\ Wrote(i) /\ Wrote(j))
      => LET t == reqs[i].ticket IN
         /\ reqs[i].seen = 0 /\ reqs[j].seen = 0
         /\ reqs[i].task # reqs[j].task
         /\ {reqs[i].task, reqs[j].task} \subseteq TasksFor(t)
         /\ tickets[t].link = WritesFor(t)[Len(WritesFor(t))][2]

\* two submits for one ticket have both created a task and written the link,
\* and the ticket holds the second id written, not the first
C3_Witness ==
  \E i \in Creators : \E j \in Creators :
    /\ i # j /\ reqs[i].ticket = reqs[j].ticket
    /\ reqs[i].resp.card = "created" /\ reqs[j].resp.card = "created"
    /\ WritesFor(reqs[i].ticket) =
         << <<reqs[i].ticket, reqs[i].task>>, <<reqs[i].ticket, reqs[j].task>> >>
    /\ tickets[reqs[i].ticket].link = reqs[j].task
    /\ reqs[i].task # reqs[j].task

NoteTopics == {"ticket.note.created", "conversation.admin.noted"}

NoteDeliveries == {i \in Requests : reqs[i].kind \in NoteTopics}

StoryDeliveries == {i \in Requests : reqs[i].kind = "story_added"}

\* the comments relayed from note k of conversation c
CopiesOfNote(c, k) ==
  {<<g, j>> \in (1..Len(asanaTasks)) \X (1..MaxNotes + MaxReq) :
     /\ asanaTasks[g].ticket = TicketOfConv(c)
     /\ j <= Len(asanaTasks[g].stories)
     /\ asanaTasks[g].stories[j].origin \in NoteTopics
     /\ asanaTasks[g].stories[j].src = k}

\* the notes relayed from story k of task g
CopiesOfStory(g, k) ==
  {<<c, j>> \in Conversations \X (1..MaxNotes + MaxReq) :
     /\ TicketOfConv(c) = asanaTasks[g].ticket
     /\ j <= Len(notes[c])
     /\ notes[c][j].origin = "story_added"
     /\ notes[c][j].src = k}

\* the story of a story-added delivery was posted by the integration
OfSyncedStory(i) ==
  asanaTasks[reqs[i].task].stories[reqs[i].event].origin \notin Authors

\* the delivery did something on the other side, or is about to
Relays(i) ==
  reqs[i].pc \in {"relay", "reply"} \/ reqs[i].posted \/ reqs[i].count > 0

C6_AppNoteSkipped ==
  /\ \A i \in NoteDeliveries :
       (reqs[i].msg # 0 /\ notes[reqs[i].conv][reqs[i].msg].app)
         => /\ ~Relays(i)
            /\ reqs[i].pc = "done" => reqs[i].resp = Ack
  /\ \A c \in Conversations : \A k \in 1..Len(notes[c]) :
       notes[c][k].app => CopiesOfNote(c, k) = {}

\* the legacy handler has examined an app's note that has text and an
\* attachment, on a linked ticket, and has answered 200 with the task untouched
C6_Witness ==
  \E i \in NoteDeliveries :
    /\ reqs[i].kind = "conversation.admin.noted"
    /\ reqs[i].pc = "done" /\ reqs[i].resp = Ack /\ reqs[i].task # 0
    /\ reqs[i].msg # 0
    /\ LET note == notes[reqs[i].conv][reqs[i].msg] IN
         /\ note.app /\ note.att > 0 /\ Len(reqs[i].text) > 0
         /\ asanaTasks[reqs[i].task].stories = <<>>
         /\ asanaTasks[reqs[i].task].files = 1

\* C7 as stated: on every relay path, note to task and comment to
\* conversation, a message is relayed only when it has neither the provenance
\* tag nor the authored-by-app marker.
C7_BothGuardsOnEveryPath ==
  /\ \A i \in NoteDeliveries :
       Relays(i) =>
         /\ ~notes[reqs[i].conv][reqs[i].msg].app
         /\ ~SyncedFromAsana(plainTextBody(notes[reqs[i].conv][reqs[i].msg].body))
  /\ \A i \in StoryDeliveries :
       Relays(i) =>
         /\ ~asanaTasks[reqs[i].task].stories[reqs[i].event].app
         /\ ~StartsWith(asanaTasks[reqs[i].task].stories[reqs[i].event].text,
                        TagIntercomNote)

\* C7 as amended: a note is relayed to the task only when it has neither the
\* provenance tag nor an app_package_code; a comment is relayed to the
\* conversation only when it does not start with the Intercom tag, and no
\* authored-by-app marker of the story is looked at.
C7_BothGuardsForNotesTagGuardForComments ==
  /\ \A i \in NoteDeliveries :
       Relays(i) =>
         /\ ~notes[reqs[i].conv][reqs[i].msg].app
         /\ ~SyncedFromAsana(plainTextBody(notes[reqs[i].conv][reqs[i].msg].body))
  /\ \A i \in StoryDeliveries :
       Relays(i) =>
         ~StartsWith(asanaTasks[reqs[i].task].stories[reqs[i].event].text,
                     TagIntercomNote)

\* a comment written through the API by another app, without the Intercom
\* tag, has been relayed to the conversation as a note
C7_Witness ==
  \E i \in StoryDeliveries :
    /\ reqs[i].posted
    /\ asanaTasks[reqs[i].task].stories[reqs[i].event].app
    /\ asanaTasks[reqs[i].task].stories[reqs[i].event].origin = "app"
    /\ CopiesOfStory(reqs[i].task, reqs[i].event) # {}

\* ------------------------------------------------------------ status resolution
ResolveCalls == {i \in Requests : reqs[i].kind = "getTicketStateId"}

\* the states of the catalog a ticket type admits, as positions
Applicable(states, type) ==
  {k \in 1..Len(states) : type = NULL \/ type \in states[k].ticket_types}

\* what pass p compares: 1 the internal label, 2 the external label, 3 the
\* category
Compared(st, p) ==
  IF p = 1 THEN st.internal_label
  ELSE IF p = 2 THEN st.external_label ELSE st.category

\* the id the three passes give, the labels being trimmed before they are
\* compared or not: the first state in catalog order of the first pass that
\* has a match, else 0
ThreePasses(states, type, text, trimLabels) ==
  LET Same(label) ==
        IF trimLabels THEN Trim(toLowerCase(label)) = Trim(toLowerCase(text))
        ELSE toLowerCase(label) = Trim(toLowerCase(text))
      Hits(p) == {k \in Applicable(states, type) : Same(Compared(states[k], p))}
      First(S) == CHOOSE k \in S : \A h \in S : k <= h
  IN IF Hits(1) # {} THEN states[First(Hits(1))].id
     ELSE IF Hits(2) # {} THEN states[First(Hits(2))].id
     ELSE IF Hits(3) # {} THEN states[First(Hits(3))].id
     ELSE 0

\* C8 as stated: the text is resolved in three passes, internal label, then
\* external label, then category, the first state in catalog order winning
\* within a pass, and the comparison ignores case and surrounding white space.
C8_ThreePassesIgnoringCaseAndSpace ==
  \A i \in ResolveCalls :
    Len(ticketStatesCache.states) > 0 =>
      reqs[i].stateId =
        ThreePasses(ticketStatesCache.states, reqs[i].type, reqs[i].text, TRUE)

\* C8 as amended: the same three passes in the same order, where the text is
\* lower-cased and trimmed and a label is lower-cased only, so that a label
\* with white space around it is never matched.
C8_ThreePassesTextTrimmedLabelsNot ==
  \A i \in ResolveCalls :
    Len(ticketStatesCache.states) > 0 =>
      reqs[i].stateId =
        ThreePasses(ticketStatesCache.states, reqs[i].type, reqs[i].text, FALSE)

\* a text with spaces around it resolved to the second state by its internal
\* label although the first state has the text as its external label
C8_Witness ==
  \E i \in ResolveCalls :
    /\ reqs[i].text = <<" ", "a", " ">> /\ reqs[i].stateId = 2
    /\ Len(ticketStatesCache.states) > 0
    /\ ticketStates[1].external_label = <<"a">>
    /\ ticketStates[1].internal_label = <<"B">>
    /\ ticketStates[2].internal_label = <<"a">>
    /\ Applicable(ticketStates, reqs[i].type) = 1..Len(ticketStates)

\* ------------------------------------------------------------ status sync
StatusSyncs == {i \in Requests : reqs[i].kind = "task_changed"}

\* the ticket types of the state of the catalog with this id
TypesOfState(id) ==
  ticketStates[CHOOSE k \in 1..Len(ticketStates) : ticketStates[k].id = id].ticket_types

\* C9: when the status of a task is synced to a ticket of type K, the state
\* id a status sync has written, and so the state the ticket is in, belongs
\* to a state whose ticket types include K.
C9_WrittenStateBelongsToTicketType ==
  /\ \A i \in StatusSyncs :
       reqs[i].posted =>
         tickets[reqs[i].ticket].type \in TypesOfState(reqs[i].stateId)
  /\ \A t \in Tickets :
       tickets[t].state # 0 => tickets[t].type \in TypesOfState(tickets[t].state)

\* no state the call considers (all states, or those of the ticket type it
\* was given) has the text as a label or as its category
NoApplicableMatch(r) ==
  \A k \in Applicable(ticketStates, r.type) : \A p \in 1..3 :
    toLowerCase(Compared(ticketStates[k], p)) # Trim(toLowerCase(r.text))

C11_StateAndCloseInOneWrite ==
  /\ [][\A t \in Tickets :
          tickets'[t] # tickets[t] =>
            \E i \in StatusSyncs :
              /\ reqs[i].pc = "put" /\ reqs'[i].pc = "done" /\ reqs'[i].posted
              /\ reqs[i].ticket = t
              /\ tickets'[t].state = reqs[i].stateId
              /\ tickets'[t].open = (tickets[t].open /\ ~reqs[i].close)
              /\ \A u \in Tickets \ {t} : tickets'[u] = tickets[u]
              /\ \A j \in Requests \ {i} : reqs'[j] = reqs[j]]_vars
  /\ [](\A i \in StatusSyncs :
          /\ reqs[i].posted => reqs[i].pc = "done"
          /\ (reqs[i].posted /\ reqs[i].close) => ~tickets[reqs[i].ticket].open)

\* a status that is not whitelisted has been synced to an open ticket: the
\* ticket holds the resolved state and is closed
C11_Witness ==
  \E i \in StatusSyncs :
    /\ reqs[i].posted /\ reqs[i].close
    /\ reqs[i].text \notin whitelistStatus
    /\ tickets[reqs[i].ticket].state = reqs[i].stateId
    /\ ~tickets[reqs[i].ticket].open

\* ------------------------------------------------------------ webhook events
\* C12: the status sync runs only for a 'task changed' event whose changed
\* field is the status field: a delivery for another field writes nothing to
\* the ticket.
C12_OnlyStatusFieldEventsWrite ==
  \A i \in StatusSyncs :
    (reqs[i].secret = NULL /\ reqs[i].field # "custom_fields")
      => ~reqs[i].posted

\* the deliveries that carry the X-Hook-Secret header
Handshakes == {i \in Requests : reqs[i].secret # NULL}

\* the request has called neither Intercom nor Asana
NoCallMade(r) ==
  /\ r.conv = NULL /\ r.ticket = NULL /\ r.type = NULL
  /\ r.text = <<>> /\ r.stateId = 0 /\ ~r.posted

\* C13 as stated: a request to /asana-webhook-prod that carries the
\* X-Hook-Secret header makes no call to Intercom or Asana for the events of
\* its body, and its answer is 200 with the same header holding the same
\* value.
C13_HeaderEchoedNoEventProcessed ==
  \A i \in Handshakes :
    /\ NoCallMade(reqs[i])
    /\ reqs[i].pc = "done" =>
         reqs[i].resp = Ack /\ reqs[i].echo = reqs[i].secret

\* C13 as amended: a request whose X-Hook-Secret header has a non-empty value
\* is answered before any await with 200 and the same header holding the same
\* value, and no event of its body is processed; a header with the empty
\* value is treated as absent, so the events of the body are processed and
\* the response carries no X-Hook-Secret header.
C13_NonEmptyHeaderEchoedNoEventProcessed ==
  \A i \in Handshakes :
    IF reqs[i].secret # ""
    THEN /\ reqs[i].pc = "done" /\ reqs[i].resp = Ack
         /\ reqs[i].echo = reqs[i].secret
         /\ NoCallMade(reqs[i])
    ELSE /\ reqs[i].echo = NULL
         /\ reqs[i].pc # "start"

\* a request with a secret and an event for a task that has a status was
\* answered with the echo while the ticket of the task is as it was, and a
\* request with an empty header had its event synced to the ticket
C13_Witness ==
  /\ \E i \in Handshakes :
       /\ reqs[i].secret = "s1" /\ reqs[i].echo = "s1" /\ reqs[i].resp = Ack
       /\ reqs[i].field = "custom_fields"
       /\ asanaTasks[reqs[i].task].status # <<>>
       /\ asanaWebhookSecret = "s1"
  /\ \E j \in Handshakes : reqs[j].secret = "" /\ reqs[j].posted

\* ------------------------------------------------------------ failure paths
\* the requests to /initialize and /submit
CanvasRequests ==
  {i \in Requests :
     reqs[i].kind \in {"initialize", "submit_button", "sync_files_button"}}

\* C14: every failure path of every handler ends in a response card or a
\* 200: an answered request to /initialize or /submit has a card, and an
\* answered delivery to /intercom-webhook or /asana-webhook-prod has status
\* 200, never a 5xx.
C14_CardOr200OnEveryPath ==
  \A i \in Requests :
    reqs[i].pc = "done" =>
      IF i \in CanvasRequests
      THEN reqs[i].resp \notin {NoCard, Ack, Fail}
      ELSE reqs[i].resp = Ack

\* ------------------------------------------------------------ attachment relay
\* the create-task submits whose attachment loop has ended
PastTheLoop ==
  {i \in Creates : reqs[i].pc \in {"link", "store"}
                     \/ reqs[i].resp.card = "created"}

\* C15: in create-task the attachments are relayed independently: every round
\* of the loop pushes the entry of the next URL, which is one of the entries
\* that URL's own outcome can give, and leaves the earlier entries alone; the
\* loop ends only when every URL has its entry, so the list has one entry per
\* URL in input order, each success, failed or invalid_url.
C15_EveryUrlProcessedOnItsOwn ==
  /\ [][\A i \in Creates :
          (reqs[i].pc = "attach" /\ reqs'[i] # reqs[i]) =>
            LET k == Len(reqs[i].results) + 1 IN
            /\ \E out \in UploadOutcomes :
                 reqs'[i].results =
                   Append(reqs[i].results, AttachmentResult(reqs[i].urls[k], out))
            /\ reqs'[i].pc = IF k < Len(reqs[i].urls) THEN "attach" ELSE "link"]_vars
  /\ [](\A i \in Creates :
          /\ Len(reqs[i].results) <= Len(reqs[i].urls)
          /\ i \in PastTheLoop => Len(reqs[i].results) = Len(reqs[i].urls)
          /\ \A k \in 1..Len(reqs[i].results) :
               /\ reqs[i].results[k].url = reqs[i].urls[k]
               /\ reqs[i].results[k].status \in {"success", "failed", "invalid_url"})

\* a create-task submit has answered with the success card after the upload
\* of its first URL failed and the upload of its second URL succeeded
C15_Witness ==
  \E i \in Creates :
    /\ reqs[i].resp.card = "created"
    /\ reqs[i].urls = <<"http", "https">>
    /\ Len(reqs[i].results) = 2
    /\ reqs[i].results[1].status = "failed"
    /\ reqs[i].results[2].status = "success"
    /\ asanaTasks[reqs[i].task].files = 1

\* C16: a source URL that does not parse as http or https is rejected before
\* any request: uploadAttachmentToAsana makes neither the download nor the
\* upload request and returns no value, and create-task reports the item as
\* invalid_url and uploads nothing for it.
C16_InvalidUrlRejectedBeforeAnyRequest ==
  /\ \A i \in UploadCalls :
       ~isValidUrl(reqs[i].urls[1]) =>
         reqs[i].value = NULL /\ reqs[i].calls = 0
  /\ \A i \in Creates :
       /\ \A k \in 1..Len(reqs[i].results) :
            ~isValidUrl(reqs[i].urls[k]) =>
              /\ reqs[i].results[k].status = "invalid_url"
              /\ reqs[i].results[k].permanentUrl = NULL
       /\ reqs[i].task # 0 =>
            asanaTasks[reqs[i].task].files <=
              Cardinality({k \in 1..Len(reqs[i].results) :
                             isValidUrl(reqs[i].urls[k])})

\* a create-task submit whose ticket holds a bare id and a URL of another
\* scheme has created its task and reported both as invalid_url, and the task
\* has no file
C16_Witness ==
  \E i \in Creates :
    /\ reqs[i].resp.card = "created"
    /\ reqs[i].urls = <<"id", "ftp">>
    /\ Len(reqs[i].results) = 2
    /\ reqs[i].results[1].status = "invalid_url"
    /\ reqs[i].results[2].status = "invalid_url"
    /\ asanaTasks[reqs[i].task].files = 0

\* C17: uploadAttachmentToAsana never throws.  When the download and the
\* upload both succeed it returns the permanent URL of the response, else the
\* download URL, else the URL, else 'uploaded'; when the download or the
\* upload fails or throws it returns no value, and create-task reports an
\* item as failed exactly when the call for it returned no value.
C17_ValueExactlyWhenBothSucceed ==
  /\ \A i \in UploadCalls :
       LET out == reqs[i].outcome IN
       /\ reqs[i].pc = "done"
       /\ IF isValidUrl(reqs[i].urls[1]) /\ out.download = "ok" /\ out.upload = "ok"
          THEN reqs[i].value =
                 CASE "permanent_url" \in out.data -> "permanent_url"
                   [] "download_url" \in out.data -> "download_url"
                   [] "url" \in out.data -> "url"
                   [] OTHER -> "uploaded"
          ELSE reqs[i].value = NULL
  /\ \A i \in Creates : \A k \in 1..Len(reqs[i].results) :
       isValidUrl(reqs[i].urls[k]) =>
         reqs[i].results[k].status =
           IF reqs[i].results[k].permanentUrl = NULL THEN "failed" ELSE "success"

\* a call for an https URL whose upload response has no permanent_url has
\* returned the download URL after its two requests
C17_Witness ==
  \E i \in UploadCalls :
    /\ reqs[i].urls = <<"https">>
    /\ reqs[i].outcome.upload = "ok"
    /\ reqs[i].outcome.data = {"download_url", "url"}
    /\ reqs[i].value = "download_url"
    /\ reqs[i].calls = 2

\* ------------------------------------------------------------ critical fields
\* C18: a missing critical field disables only its feature: when the schema
\* loaded for the selected project (the mapping holds that project's status
\* field) lacks 'Intercom Conversation ID', the payload create-task builds
\* leaves the conversation-id field out.
C18_MissingFieldLeftOutOfPayload ==
  \A i \in Creates :
    (/\ reqs[i].pc = "create"
     /\ GidOf(ProjectSchema(reqs[i].project), "Intercom Conversation ID") = NULL
     /\ ASANA_CUSTOM_FIELDS.TICKET_STATUS =
          GidOf(ProjectSchema(reqs[i].project), "Ticket Status"))
      => reqs[i].convGid = NULL

\* ------------------------------------------------------------ date text
DateCalls == {i \in Requests : reqs[i].kind = "formatDateForAsana"}

IsLeapYear(y) == (y % 4 = 0 /\ y % 100 # 0) \/ y % 400 = 0

DaysInMonth(y, m) ==
  IF m = 2 THEN (IF IsLeapYear(y) THEN 29 ELSE 28)
  ELSE IF m \in {4, 6, 9, 11} THEN 30 ELSE 31

RECURSIVE DaysBeforeYear(_)
\* the days from 1970-01-01 to the first day of year y
DaysBeforeYear(y) ==
  IF y <= 1970 THEN 0
  ELSE DaysBeforeYear(y - 1) + (IF IsLeapYear(y - 1) THEN 366 ELSE 365)

RECURSIVE DaysBeforeMonth(_, _)
\* the days from the first day of year y to the first day of its month m
DaysBeforeMonth(y, m) ==
  IF m <= 1 THEN 0 ELSE DaysBeforeMonth(y, m - 1) + DaysInMonth(y, m - 1)

\* the minute, counted from 1970-01-01 0:00, that a text M/D/YYYY, h:mm AM
\* names, by counting the calendar
MinuteNamed(f) ==
  LET hour == (f[8] % 12) + (IF f[13] = "PM" THEN 12 ELSE 0) IN
  ((DaysBeforeYear(f[5]) + DaysBeforeMonth(f[5], f[1]) + f[3] - 1) * 24 + hour) * 60
    + f[10] * 10 + f[11]

\* the text has the layout M/D/YYYY, h:mm AM with a date of the calendar
WellFormed(f) ==
  /\ Len(f) = 13
  /\ f[2] = "/" /\ f[4] = "/" /\ f[6] = "," /\ f[7] = " " /\ f[9] = ":"
  /\ f[1] \in 1..12 /\ f[3] \in 1..DaysInMonth(f[5], f[1])
  /\ f[8] \in 1..12 /\ f[10] \in 0..5 /\ f[11] \in 0..9
  /\ f[12] \in DayPeriodSpaces /\ f[13] \in {"AM", "PM"}

\* C19 as stated: formatDateForAsana renders unix seconds as
\* 'M/D/YYYY, h:mm AM/PM' in the fixed zone whatever the server's zone, and
\* for 1700000000 the result is "11/14/2023, 8:13 PM".
C19_FixedZoneLiteral_8_13_PM ==
  \A i \in DateCalls :
    reqs[i].date # 0 =>
      /\ WellFormed(reqs[i].formatted)
      /\ MinuteNamed(reqs[i].formatted) = (reqs[i].date + AsiaDhaka) \div 60
      /\ reqs[i].date = 1700000000 =>
           reqs[i].formatted =
             <<11, "/", 14, "/", 2023, ",", " ", 8, ":", 1, 3, " ", "PM">>

\* C19 as amended: the result is the text 'M/D/YYYY, h:mm AM/PM' of the
\* instant in the zone Asia/Dhaka (UTC+6) whatever the server's zone, the
\* white space before AM/PM being the one of the runtime's ICU, and for
\* 1700000000 it is "11/15/2023, 4:13 AM".
C19_FixedZoneLiteral_4_13_AM ==
  \A i \in DateCalls :
    reqs[i].date # 0 =>
      /\ WellFormed(reqs[i].formatted)
      /\ MinuteNamed(reqs[i].formatted) = (reqs[i].date + AsiaDhaka) \div 60
      /\ reqs[i].date = 1700000000 =>
           reqs[i].formatted =
             <<11, "/", 15, "/", 2023, ",", " ", 4, ":", 1, 3,
               reqs[i].formatted[12], "AM">>

\* on a server two hours west of UTC, where the local time is 8:13 PM of
\* 11/14/2023, the call for 1700000000 has returned 11/15/2023, 4:13 AM
C19_Witness ==
  \E i \in DateCalls :
    /\ reqs[i].date = 1700000000 /\ reqs[i].zone = -2
    /\ reqs[i].formatted =
         <<11, "/", 15, "/", 2023, ",", " ", 4, ":", 1, 3, " ", "AM">>

\* C20: /initialize returns a card that describes the ticket's current link
\* state: the step that answers an /initialize request sends the linked card
\* with the task id exactly when the ticket has a linked task at that moment,
\* and the create card exactly when it has none.
C20_CardDescribesLinkState ==
  [][\A i \in Requests :
       (reqs[i].kind = "initialize" /\ reqs[i].pc = "fetch"
          /\ reqs'[i].pc = "done") =>
         LET link == tickets[reqs[i].ticket].link IN
         /\ reqs'[i].resp.card = "linked" <=> link # 0
         /\ reqs'[i].resp.card = "initial" <=> link = 0
         /\ link # 0 => reqs'[i].resp.task = link]_vars

\* ------------------------------------------------------------ link recording
\* the task gids the in-memory map has an entry for
MappedTasks == {e[1] : e \in asanaTaskToConversation}

\* the writes of 'Asana Task ID' that Intercom has received for a request
LinkWritten(r) ==
  \E k \in 1..Len(putLog) : putLog[k] = <<r.ticket, r.task>>

\* C21 as stated: the task id is written to the ticket attribute before the
\* conversation id is written to the task's custom field: a task that holds
\* its conversation id belongs to a ticket that has been sent the task id.
C21_TicketThenTaskFieldThenMap ==
  \A i \in Creates :
    LET r == reqs[i] IN
    /\ (r.task # 0 /\ asanaTasks[r.task].conv # NULL) => LinkWritten(r)
    /\ r.task \in MappedTasks => r.pc = "done"

\* C21 as amended: the conversation id goes out first, in the payload that
\* creates the task, under the field mapped at that moment if there is one;
\* then the write of the task id to the ticket attribute is attempted, its
\* result ignored; then the entry is put in the in-memory map.  The task's
\* fields are not written again, the ticket write is sent only for a task
\* that exists and is not yet in the map, and the map entry is put by the
\* step after the ticket write.
C21_TaskFieldThenTicketThenMap ==
  /\ [](\A i \in Creates :
         LET r == reqs[i] IN
         /\ r.pc \in {"attach", "link"} =>
              /\ r.task \in 1..Len(asanaTasks)
              /\ asanaTasks[r.task].conv = NewTask(r).conv
              /\ ~LinkWritten(r)
              /\ r.task \notin MappedTasks
         /\ r.pc = "store" =>
              /\ asanaTasks[r.task].conv = NewTask(r).conv
              /\ r.task \notin MappedTasks
         /\ (i \in Creators /\ r.task \in MappedTasks) =>
              /\ r.resp = Card("created", r.task)
              /\ <<r.task, ConvOf(r.ticket)>> \in asanaTaskToConversation)
  /\ [][/\ \A k \in 1..Len(asanaTasks) : asanaTasks'[k].conv = asanaTasks[k].conv
        /\ putLog' # putLog =>
             \E i \in Creates : /\ reqs[i].pc = "link" /\ reqs'[i].pc = "store"
                                 /\ putLog' = Append(putLog, <<reqs[i].ticket, reqs[i].task>>)
        /\ asanaTaskToConversation' # asanaTaskToConversation =>
             \E i \in Creates : /\ reqs[i].pc = "store" /\ reqs'[i].pc = "done"
                                 /\ MappedTasks' = MappedTasks \cup {reqs[i].task}]_vars

\* a create-task has recorded its link in all three places: the task holds
\* the conversation id, Intercom has received the task id for the ticket and
\* the map holds the entry
C21_Witness ==
  \E i \in Creates :
    LET r == reqs[i] IN
    /\ r.resp = Card("created", r.task)
    /\ asanaTasks[r.task].conv = ConvOf(r.ticket)
    /\ LinkWritten(r)
    /\ tickets[r.ticket].link = r.task
    /\ <<r.task, ConvOf(r.ticket)>> \in asanaTaskToConversation

\* ------------------------------------------------------------ lookup precedence
Lookups == {i \in Requests : reqs[i].kind = "getConversationIdFromTask"}

\* C22: a fetched task resolves to the value of the custom field whose gid
\* is the mapped conversation-id gid; only if no field has that gid, to the
\* value of the field named 'Intercom Conversation ID'; only if that gives no
\* value, to the entry of the in-memory map; the place of the fields in the
\* task's list does not matter.
C22_GidThenNameThenMap ==
  \A i \in Lookups :
    reqs[i].fetched =>
      LET customFields == reqs[i].fields
          byGid == {k \in 1..Len(customFields) :
                      customFields[k].gid = ASANA_CUSTOM_FIELDS.INTERCOM_CONVERSATION_ID}
          byName == {k \in 1..Len(customFields) :
                       customFields[k].name = "Intercom Conversation ID"}
          hits == IF byGid # {} THEN byGid ELSE byName
          value == IF hits = {} THEN NULL
                   ELSE customFields[CHOOSE k \in hits :
                                       \A h \in hits : k <= h].text_value
      IN reqs[i].conv = IF value \notin {NULL, ""} THEN value
                        ELSE MapEntry(reqs[i].task)

\* ------------------------------------------------------------ provenance tags
\* the handlers that write a comment on a task, and those that write a note
\* on a conversation
CommentWriters == {"ticket.note.created", "conversation.admin.noted"}
NoteWriters == {"story_added", "sync_files"}

\* C23: every message the integration writes begins with a provenance tag
\* that the opposite handler skips: a comment it posted on a task begins with
\* '[Intercom Note by', and a note it posted on a conversation begins, once
\* its HTML tags are stripped and the text trimmed, with '[Asana Comment by'
\* (a relayed comment) or '[File Sync from Intercom to Asana]' (the file-sync
\* note), which the tag guard of /intercom-webhook recognises.
C23_OwnMessagesCarrySkipPrefix ==
  /\ \A g \in 1..Len(asanaTasks) : \A k \in 1..Len(asanaTasks[g].stories) :
       asanaTasks[g].stories[k].origin \in CommentWriters =>
         StartsWith(asanaTasks[g].stories[k].text, TagIntercomNote)
  /\ \A c \in Conversations : \A k \in 1..Len(notes[c]) :
       LET plain == plainTextBody(notes[c][k].body) IN
       /\ notes[c][k].origin = "story_added" => StartsWith(plain, TagAsanaComment)
       /\ notes[c][k].origin = "sync_files" => StartsWith(plain, TagFileSync)
       /\ notes[c][k].origin \in NoteWriters => SyncedFromAsana(plain)

\* a conversation holds the file-sync note and, after it, a note relayed
\* from a comment, whose body opens with an HTML tag before the provenance
\* tag
C23_Witness ==
  \E c \in Conversations : \E k, l \in 1..Len(notes[c]) :
    /\ notes[c][k].origin = "sync_files"
    /\ notes[c][l].origin = "story_added"
    /\ notes[c][l].body[1] \in HtmlTags
    /\ StartsWith(plainTextBody(notes[c][l].body), TagAsanaComment)

\* ------------------------------------------------------------ close flag
\* C24: the write of a resolved state closes the ticket exactly when the new
\* status is not whitelisted and the ticket as fetched is open: the step
\* that has fetched the ticket sets the close flag to that, a failed fetch
\* (no ticket type known) never sets it, no later step changes it, and the
\* accepted PUT stores open = false when the flag is set and leaves the open
\* attribute alone when it is not.
C24_CloseIffNotWhitelistedAndOpen ==
  [][\A i \in StatusSyncs :
       LET r == reqs[i] IN
       /\ (r.pc = "ticket" /\ reqs'[i].pc = "states") =>
            (reqs'[i].close <=>
               /\ r.text \notin whitelistStatus
               /\ reqs'[i].type # NULL
               /\ tickets[r.ticket].open)
       /\ r.pc # "ticket" => reqs'[i].close = r.close
       /\ (r.pc = "put" /\ reqs'[i].posted) =>
            /\ tickets'[r.ticket].state = r.stateId
            /\ tickets'[r.ticket].open = (tickets[r.ticket].open /\ ~r.close)]_vars

\* a status that is not whitelisted has been synced to a ticket that was
\* fetched closed: the state was written without the close flag
C24_Witness ==
  \E i \in StatusSyncs :
    /\ reqs[i].posted /\ ~reqs[i].close
    /\ reqs[i].text \notin whitelistStatus
    /\ reqs[i].type # NULL
    /\ tickets[reqs[i].ticket].state = reqs[i].stateId

\* ------------------------------------------------------------ schema cache
\* the critical gids initializeCustomFieldMappings leaves for a schema
MappingAfter(settings) ==
  [INTERCOM_CONVERSATION_ID |->
     IF GidOf(settings, "Intercom Conversation ID") # NULL
     THEN GidOf(settings, "Intercom Conversation ID")
     ELSE ASANA_CUSTOM_FIELDS.INTERCOM_CONVERSATION_ID,
   TICKET_STATUS |->
     IF GidOf(settings, "Ticket Status") # NULL
     THEN GidOf(settings, "Ticket Status")
     ELSE ASANA_CUSTOM_FIELDS.TICKET_STATUS]

C26_OnlyMappingAndMapAreKept ==
  /\ []((\A i \in Requests : reqs[i].pc = "done") => asanaWebhookSecret = NULL)
  /\ [][ticketStatesCache' = ticketStatesCache]_vars

\* ------------------------------------------------------------ date paths
DateTexts == {i \in Requests : reqs[i].kind = "dateText"}
DateFields == {i \in Requests : reqs[i].kind = "formatDateForAsanaDateField"}

\* C27 as stated: on the date-text path of create-task a value that cannot
\* be parsed as a date puts no value for the field in the task payload.
C27_UnparsedDateLeavesNoValue ==
  \A i \in DateTexts :
    reqs[i].formatted = <<>> => reqs[i].payload = NoEntry

\* C27 as amended: on the date-text path formatDateForAsana returns no value
\* for a value that is no date and raises nothing, and the field then gets
\* the value's own text, String(value); a value that is a date gets the
\* formatted date.  The field is never left out on this path.
C27_UnparsedDateFallsBackToText ==
  \A i \in DateTexts :
    /\ reqs[i].pc = "done"
    /\ reqs[i].formatted = <<>> <=>
         (reqs[i].type = "text" \/ (reqs[i].type = "number" /\ reqs[i].date = 0))
    /\ IF reqs[i].formatted = <<>>
       THEN /\ reqs[i].payload.entry = "text"
            /\ reqs[i].payload.text = <<reqs[i].raw>>
       ELSE /\ reqs[i].payload.entry = "formatted"
            /\ reqs[i].payload.text = reqs[i].formatted

\* the text 'tomorrow' has gone through the date-text path: no date came
\* out of formatDateForAsana and the payload holds the text itself
C27_Witness ==
  \E i \in DateTexts :
    /\ reqs[i].raw = "tomorrow"
    /\ reqs[i].formatted = <<>>
    /\ reqs[i].payload = Entry("text", <<"tomorrow">>)

\* C28: formatDateForAsanaDateField returns the YYYY-MM-DD calendar date of
\* the instant in the fixed zone of formatDateForAsana (Asia/Dhaka),
\* whatever the server's time zone: where the two zones are on different
\* calendar dates, the date of the fixed zone is returned.
C28_DateFieldInFixedZone ==
  \A i \in DateFields :
    reqs[i].formatted # <<>> =>
      LET date == CivilFromDays((reqs[i].date + AsiaDhaka) \div 86400) IN
      reqs[i].formatted =
        <<date.year, "-", date.month \div 10, date.month % 10, "-",
          date.day \div 10, date.day % 10>>

\* ------------------------------------------------------------ url extraction
ExtractCalls == {i \in Requests : reqs[i].kind = "extractAttachmentUrls"}

\* the places of a list whose element has a url
WithUrl(items) == {k \in 1..Len(items) : items[k].url # NULL}

\* C29: extractAttachmentUrls returns, and never raises: for a list of file
\* objects the url of each element that has one, in the order of the list;
\* for one file object with a url that url; for a string that parses as
\* http or https that string; and the empty list for an empty list, an
\* absent value, an object without url and any scalar that is no such URL.
C29_UrlsOfListObjectOrString ==
  \A i \in ExtractCalls :
    LET v == reqs[i].fieldValue
        urls == reqs[i].urls
    IN
    /\ reqs[i].pc = "done"
    /\ IF v.kind = "list"
       THEN /\ Len(urls) = Cardinality(WithUrl(v.items))
            /\ \A j \in 1..Len(urls) :
                 \E k \in WithUrl(v.items) :
                   /\ Cardinality({h \in WithUrl(v.items) : h < k}) = j - 1
                   /\ urls[j] = v.items[k].url
       ELSE IF v.kind = "object" /\ v.url # NULL THEN urls = <<v.url>>
       ELSE IF v.kind = "string" /\ v.url \in {"http", "https"}
       THEN urls = <<v.url>>
       ELSE urls = <<>>

\* a list whose first element has no url and whose second has a url that is
\* not http or https has been extracted: that url alone came out
C29_Witness ==
  \E i \in ExtractCalls :
    /\ reqs[i].fieldValue.kind = "list"
    /\ Len(reqs[i].fieldValue.items) = 2
    /\ reqs[i].fieldValue.items[1].url = NULL
    /\ reqs[i].fieldValue.items[2].url = "ftp"
    /\ reqs[i].urls = <<"ftp">>


\* ------------------------------------------------------------ enum lookup
EnumLookups == {i \in Requests : reqs[i].kind = "getAsanaEnumOptionId"}

\* C30: getAsanaEnumOptionId returns the gid of the option whose name is
\* exactly the label - a label that differs from every option name, be it
\* only in letter case or by a trailing space, gives no value, and so does a
\* failed fetch - and every call goes by the options the field has when the
\* call is made, whatever they were at an earlier call.
C30_ExactNameAgainstLiveOptions ==
  /\ [](\A i \in EnumLookups :
          /\ reqs[i].raw \notin OptionNames => reqs[i].value = NULL
          /\ ~reqs[i].fetched => reqs[i].value = NULL
          /\ reqs[i].value # NULL =>
                \E k \in 1..Len(OptionGids) : reqs[i].value = OptionGids[k])
  /\ [][\A i \in EnumLookups' \ EnumLookups :
          LET label == reqs'[i].raw
              named == {k \in 1..Len(enumOptions) : enumOptions[k].name = label}
          IN IF reqs'[i].fetched /\ named # {}
             THEN \E k \in named :
                    /\ reqs'[i].value = enumOptions[k].gid
                    /\ \A h \in named : k <= h
             ELSE reqs'[i].value = NULL]_vars

\* two calls with the same label, of which the first found no option and the
\* second, after an option was added or renamed, the option of that name;
\* or the first found an option that the second, after a renaming, no longer
\* finds
C30_Witness ==
  \E i, j \in EnumLookups :
    /\ i < j
    /\ reqs[i].raw = reqs[j].raw
    /\ reqs[i].fetched /\ reqs[j].fetched
    /\ reqs[i].value = NULL
    /\ reqs[j].value = "o2"
    /\ Len(enumOptions) = 2


\* ------------------------------------------------------------ create-task outcomes
\* the submits whose POST /tasks was accepted
TaskCreated == {i \in Creates : reqs[i].task # 0 /\ reqs[i].resp.card # "exists"}

Syncs == {i \in Requests : reqs[i].kind = "sync_files_button"}

\* C32: in a Sync Files submit the ticket's 'Intercom to Asana' field is
\* cleared only after a successful sync: the field changes only in the
\* clearing step of a submit every file of which was uploaded, so a file
\* whose upload failed is still in the field afterwards.
C32_ClearedOnlyAfterSuccessfulSync ==
  [][\A t \in Tickets :
       tickets'[t].files # tickets[t].files =>
         \E i \in Syncs :
           /\ reqs[i].ticket = t
           /\ reqs[i].pc = "clear" /\ reqs'[i].pc = "done"
           /\ \A k \in 1..Len(reqs[i].results) : reqs[i].results[k] = "success"]_vars


\* ------------------------------------------------------------ joined calls
\* what a create-task does after its joined calls, as a function of what
\* they returned
AfterCreateJoin(r, q) ==
  LET got == r.got IN
  /\ Len(r.order) = 3
  /\ ASANA_CUSTOM_FIELDS' =
       IF got.schema = <<>> THEN ASANA_CUSTOM_FIELDS ELSE MappingAfter(got.schema)
  /\ IF ~got.ticket.ok THEN q.resp = Card("error", 0)
     ELSE IF got.ticket.link # 0 THEN q.resp = Card("exists", got.ticket.link)
     ELSE q.pc = "fields" /\ q.resp = NoCard /\ q.urls = got.ticket.urls

\* what the comment relay does after its joined calls, as a function of what
\* they returned
AfterStoryJoin(r, q) ==
  LET got == r.got
      relayed == /\ got.story.outcome = "ok"
                 /\ got.story.subtype = "comment_added"
                 /\ Len(got.story.text) > 0
                 /\ ~StartsWith(got.story.text, TagIntercomNote)
                 /\ got.conv.found
                 /\ got.conv.conversationId # NULL
  IN
  /\ Len(r.order) = 2
  /\ IF relayed
     THEN /\ q.pc = "reply" /\ q.resp = NoCard
          /\ q.conv = got.conv.conversationId
          /\ q.text = cleanCommentText(got.story.text)
     ELSE q.pc = "done" /\ q.resp = Ack

\* C33: the calls a handler awaits jointly are order-independent.  While
\* they settle nothing but the request's own record of their results
\* changes; the handler goes on only when all have settled (or answers 500
\* at once when the story fetch rejects), and what it then does - the
\* mapping it stores, the response it sends or the call it goes on to - is
\* fixed by what the calls returned, whatever the order they settled in.
C33_JoinedCallsOrderIndependent ==
  [][\A i \in Requests :
       (reqs[i].pc = "fetch" /\ reqs'[i] # reqs[i]
          /\ reqs[i].kind \in {"submit_button", "story_added"}) =>
         IF reqs'[i].pc = "fetch"
         THEN /\ Len(reqs'[i].order) = Len(reqs[i].order) + 1
              /\ [reqs'[i] EXCEPT !.order = <<>>, !.got = NoJoin]
                   = [reqs[i] EXCEPT !.order = <<>>, !.got = NoJoin]
              /\ UNCHANGED <<tickets, notes, asanaTasks, asanaTaskToConversation,
                             ASANA_CUSTOM_FIELDS, customFieldsCache, putLog>>
         ELSE /\ UNCHANGED <<tickets, notes, asanaTasks, asanaTaskToConversation,
                             putLog>>
              /\ IF reqs[i].kind = "submit_button"
                 THEN AfterCreateJoin(reqs[i], reqs'[i])
                 ELSE \/ /\ reqs'[i].got.story.outcome = "throws"
                         /\ reqs'[i].resp = Fail
                      \/ /\ reqs'[i].got = reqs[i].got
                         /\ AfterStoryJoin(reqs[i], reqs'[i])]_vars

\* a create-task whose contact fetch settled first and whose ticket fetch
\* settled last has created its task and answered with the success card
C33_Witness ==
  \E i \in Creates :
    /\ reqs[i].order = <<"contact", "schema", "ticket">>
    /\ reqs[i].got.schema # <<>>
    /\ reqs[i].resp = Card("created", reqs[i].task)


\* ------------------------------------------------------------ payload gids
\* C34: the critical-field gid a create-task puts in its payload is the one
\* of the schema of the project selected in that request: when the schema
\* last mapped is that project's, the payload's conversation-id key is the
\* gid that schema gives the field, and no key when the schema lacks it.
C34_PayloadGidsOfSelectedProject ==
  \A i \in Creates :
    (/\ reqs[i].pc = "create"
     /\ reqs[i].schemaFetch
     /\ customFieldsCache = FieldsCache(ProjectSchema(reqs[i].project)))
      => reqs[i].convGid =
           GidOf(ProjectSchema(reqs[i].project), "Intercom Conversation ID")


\* ------------------------------------------------------------ success card
\* C35: create-task returns the success card only when the link has been
\* recorded on the ticket: a submit answered with the success card for a
\* task has had its write of that task id accepted by Intercom.
C35_SuccessCardOnlyWhenLinkRecorded ==
  \A i \in Creates :
    reqs[i].resp.card = "created" =>
      \E k \in 1..Len(putLog) : putLog[k] = <<reqs[i].ticket, reqs[i].resp.task>>


\* ------------------------------------------------------------ failed create
\* C36: a failed create-task leaves the pair unlinked.  A submit without a
\* ticket id is answered with the error card at once; a task creation call
\* that is rejected ends in the error card; the step that sends the error
\* card writes neither the ticket attribute nor the in-memory map and
\* creates no task, and the request it ends has created no task before.
C36_FailedCreateLeavesUnlinked ==
  /\ [](\A i \in Creates :
          /\ reqs[i].ticket = NULL => reqs[i].resp = Card("error", 0)
          /\ reqs[i].resp.card = "error" =>
               /\ reqs[i].pc = "done"
               /\ reqs[i].task = 0
               /\ reqs[i].results = <<>>)
  /\ [][\A i \in Creates :
          /\ (reqs[i].resp = NoCard /\ reqs'[i].resp.card = "error") =>
               UNCHANGED <<tickets, putLog, asanaTaskToConversation, asanaTasks>>
          /\ (reqs[i].pc = "create" /\ reqs'[i] # reqs[i]
                /\ asanaTasks' = asanaTasks) =>
               reqs'[i].resp = Card("error", 0)]_vars

\* after a create-task for a ticket failed at the ticket fetch or at the
\* task creation call, a later create-task for that ticket has created the
\* task and linked it
C36_Witness ==
  \E i, j \in Creates :
    /\ OneAfterTheOther(i, j)
    /\ reqs[i].resp = Card("error", 0)
    /\ reqs[i].schemaFetch
    /\ reqs[j].resp = Card("created", reqs[j].task)
    /\ tickets[reqs[j].ticket].link = reqs[j].task
    /\ Len(asanaTasks) = 1


\* ------------------------------------------------------------ state cache
\* C37: the ticket-state catalog cache is filled at most once per process:
\* once a call of initializeTicketStates has stored a result, the empty
\* list of a failed fetch included, the cache keeps that result.
C37_CacheFilledAtMostOnce ==
  [][ticketStatesCache.loaded => ticketStatesCache' = ticketStatesCache]_vars


\* C38: the in-memory map holds at most one conversation per task id, never
\* loses an entry, and every entry it gains is put by a create-task request
\* at its store step, after its task creation call succeeded: the entry maps
\* the task that request created to the conversation of its ticket
C38_MapGrowsOnlyByStoredCreate ==
  /\ [](\A e, f \in asanaTaskToConversation : e[1] = f[1] => e = f)
  /\ [][/\ asanaTaskToConversation \subseteq asanaTaskToConversation'
        /\ \A e \in asanaTaskToConversation' \ asanaTaskToConversation :
             \E i \in Requests :
                /\ At(i, "submit_button", "store")
                /\ reqs[i].task \in 1..Len(asanaTasks)
                /\ asanaTasks[reqs[i].task].ticket = reqs[i].ticket
                /\ e = <<reqs[i].task, ConvOf(reqs[i].ticket)>>
                /\ reqs'[i].pc = "done"]_vars

\* two create-task requests have each stored the entry of their own task
C38_Witness ==
  \E i, j \in TaskCreated :
     /\ i # j
     /\ reqs[i].pc = "done" /\ reqs[j].pc = "done"
     /\ <<reqs[i].task, ConvOf(reqs[i].ticket)>> \in asanaTaskToConversation
     /\ <<reqs[j].task, ConvOf(reqs[j].ticket)>> \in asanaTaskToConversation


\* C39: a request to /initialize, /submit, /intercom-webhook or
\* /asana-webhook-prod is answered exactly once: a handler has sent its
\* response exactly when it has ended, a response that was sent is never
\* replaced by another, and, when every outbound call returns or fails, every
\* request that arrived is eventually answered
C39_AnsweredExactlyOnce ==
  /\ [](\A i \in Requests : reqs[i].pc = "done" <=> reqs[i].resp # NoCard)
  /\ [][\A i \in Requests : reqs[i].resp # NoCard => reqs'[i] = reqs[i]]_vars
  /\ \A k \in 1..MaxReq :
       (k \in Requests) ~> (k \in Requests /\ reqs[k].pc = "done"
                                            /\ reqs[k].resp # NoCard)

\* a request that had to wait for an outbound call has been answered
C39_Witness ==
  \E i \in Requests :
     /\ reqs[i].pc = "done" /\ reqs[i].resp # NoCard
     /\ reqs[i].kind = "submit_button" /\ reqs[i].task # 0
     /\ reqs[i].resp.card = "created"


====
